---- MODULE Spec2Model ----
(***************************************************************************)
(* A model of the BC7 block codec of anibuddy (src/src/bc7): the bit       *)
(* writer and reader, the block packer of the encoder, the block decoder,  *)
(* and the compress / decompress entry points.                             *)
(*                                                                         *)
(* Machine words are sequences of bits, least significant bit first        *)
(* (index 1 is bit 0): a u32 is a sequence of 32 bits, a u64 of 64.        *)
(* Small quantities (bytes, field values, indices) are naturals.           *)
(***************************************************************************)
EXTENDS Integers, Sequences, FiniteSets, TLC

VARIABLES
    pc,        \* position of the scenario being run
    data,      \* BlockCompressorBC7::data, the writer's five 32-bit words
    pos,       \* the writer's bit position
    written,   \* the (width, value) pairs written so far
    bytes,     \* the 16 stored bytes of one block
    bstream,   \* the decoder's BitStream {low, high}
    got,       \* the values the reader returned so far
    dest0,     \* the destination buffer before the call
    dest,      \* the destination buffer
    destination_pitch, \* the byte distance between destination rows
    outcome,   \* "none", "returned" or "panic": how the call ended
    input,     \* the arguments handed to bc7_code_mode01237 / 45 / 6
    fields,    \* the fields the decoder's layout reads from the bytes
    settings,  \* BlockCompressorBC7::settings, the BC7Settings in use
    block,     \* BlockCompressorBC7::block, 64 values, channel by channel
    best_err,  \* BlockCompressorBC7::best_err
    opaque_err, \* BlockCompressorBC7::opaque_err
    call,      \* the entry point called and its width, height and stride
    rgba_data, \* the pixel buffer, four bytes a pixel
    blocks_buffer, \* the buffer of 16-byte blocks
    compressors, \* the BlockCompressorBC7 of each block of compress_bc7
    task,      \* GpuBlockCompressor::task, the queued tasks
    uniforms_buffer, \* GpuBlockCompressor::uniforms_buffer: size and slots
    bc7_settings_buffer, \* GpuBlockCompressor::bc7_settings_buffer, likewise
    device,    \* the limits of GpuBlockCompressor::device
    uniforms_aligned_size, \* GpuBlockCompressor::uniforms_aligned_size
    bc7_aligned_size, \* GpuBlockCompressor::bc7_aligned_size
    pass,      \* the dispatches recorded on the ComputePass of compress
    found,     \* the error the search of each step made so far reported
    searched,  \* the calls compress_block_bc7_core has made so far, in order
    candidate, \* best_candidate and best_err, the locals of bc7_enc_mode45
    quant,     \* the arguments of the index assignment in hand and its result
    tables,    \* a partition id and what the encoder and the decoder look up for it
    shl_call,  \* the calls of data_shl_1bit_from: offsets due, calls made, last offset, data before it
    queue      \* GpuBlockCompressor::queue: the writes staged, the commands recorded,
               \* the contents of the device's buffers and the dispatches executed

vars == <<pc, data, pos, written, bytes, bstream, got,
          dest0, dest, destination_pitch, outcome, input, fields,
          settings, block, best_err, opaque_err,
          call, rgba_data, blocks_buffer, compressors,
          task, uniforms_buffer, bc7_settings_buffer, device,
          uniforms_aligned_size, bc7_aligned_size, pass,
          found, searched, candidate, quant, tables, shl_call, queue>>

dataVars == <<data, pos>>

bitVars == <<written, bstream, got>>

destVars == <<dest0, dest, destination_pitch, outcome>>

packVars == <<input, fields>>

encVars == <<settings, block, best_err, opaque_err>>

apiVars == <<call, rgba_data, blocks_buffer>>

tileVars == <<compressors>>

modeVars == <<found, searched, candidate>>

quantVars == <<quant>>

tableVars == <<tables, shl_call>>

queueVars == <<queue>>

gpuVars == <<task, uniforms_buffer, bc7_settings_buffer, device,
             uniforms_aligned_size, bc7_aligned_size, pass>>

\* what the steps of each scenario leave alone
notBits == <<destVars, packVars, encVars, apiVars, tileVars, gpuVars,
    modeVars, quantVars,
    tableVars, queueVars>>

notDecode == <<dataVars, bitVars, packVars, encVars, apiVars, tileVars,
              gpuVars,
    modeVars, quantVars,
    tableVars, queueVars>>

notPack == <<bitVars, destVars, encVars, apiVars, tileVars, gpuVars,
    modeVars, quantVars,
    tableVars, queueVars>>

notEnc == <<written, bstream, got, input, fields, call, blocks_buffer,
           tileVars, gpuVars,
    modeVars, quantVars,
    tableVars, queueVars>>

notApi == <<dataVars, bitVars, bytes, dest, destination_pitch, packVars,
            block, best_err, opaque_err, tileVars, gpuVars,
    modeVars, quantVars,
    tableVars, queueVars>>

notTiles == <<dataVars, bitVars, bytes, dest, destination_pitch, packVars,
              block, best_err, opaque_err, gpuVars,
    modeVars, quantVars,
    tableVars, queueVars>>

notGpu == <<dataVars, bitVars, bytes, dest0, dest, destination_pitch,
            packVars, encVars, rgba_data, blocks_buffer, tileVars, modeVars,
            quantVars,
    tableVars, queueVars>>

notModes == <<pos, bitVars, bytes, destVars, packVars, block, opaque_err,
              apiVars, tileVars, gpuVars, quantVars,
    tableVars, queueVars>>

(***************************************************************************)
(* Bit vectors                                                             *)
(***************************************************************************)
Zeros(n) == [i \in 1..n |-> 0]

Ones(n) == [i \in 1..n |-> 1]

\* the sequence f with every element worked out
Word(f) == SubSeq(f, 1, Len(f))

\* a & b
BitAnd(a, b) ==
    Word([i \in 1..Len(a) |-> IF a[i] = 1 /\ b[i] = 1 THEN 1 ELSE 0])

\* a | b
BitOr(a, b) ==
    Word([i \in 1..Len(a) |-> IF a[i] = 1 \/ b[i] = 1 THEN 1 ELSE 0])

\* !a
BitNot(a) == Word([i \in 1..Len(a) |-> 1 - a[i]])

\* a << s on a word of Len(a) bits: the bits shifted out at the top are lost
Shl(a, s) == IF s >= Len(a) THEN Zeros(Len(a))
             ELSE Zeros(s) \o SubSeq(a, 1, Len(a) - s)

\* a >> s (logical)
Shr(a, s) == IF s >= Len(a) THEN Zeros(Len(a))
             ELSE SubSeq(a, s + 1, Len(a)) \o Zeros(s)

\* 2^n for n <= 30
Pow2(n) == 2 ^ n

\* the w-bit word holding the natural n (n < 2^31)
ToBits(n, w) ==
    Word([i \in 1..w |-> IF i > 31 THEN 0 ELSE (n \div Pow2(i - 1)) % 2])

RECURSIVE BitsVal(_, _)
\* the natural held by the low k bits of a (at most 31 significant bits)
BitsVal(a, k) == IF k = 0 THEN 0 ELSE a[k] * Pow2(k - 1) + BitsVal(a, k - 1)

U32(n) == ToBits(n, 32)

(***************************************************************************)
(* The bit writer: put_bits and store_data                                 *)
(***************************************************************************)
\* the same writer without the part that spills into the next word
put_bits_nospill(d, p, bits, v) ==
    [data |-> [d EXCEPT ![(p \div 32) + 1] = BitOr(@, Shl(v, p % 32))],
     pos  |-> p + bits]

\* put_bits(data, pos, bits, v): v is a u32; yields the new data and pos
put_bits(d, p, bits, v) ==
    LET w  == p \div 32
        s  == p % 32
        d1 == [d EXCEPT ![w + 1] = BitOr(@, Shl(v, s))]
        d2 == IF s + bits > 32
              THEN [d1 EXCEPT ![w + 2] = BitOr(@, Shr(v, 32 - s))]
              ELSE d1
    IN [data |-> d2, pos |-> p + bits]

ZeroData == [i \in 1..5 |-> Zeros(32)]

\* store_data: the first four words, little-endian, as 16 bytes
store_data(d) ==
    CHOOSE stored \in
        {[b \in 1..16 |->
             BitsVal(SubSeq(w[((b - 1) \div 4) + 1],
                            8 * ((b - 1) % 4) + 1, 8 * ((b - 1) % 4) + 8), 8)] :
         w \in {d}} : TRUE

(***************************************************************************)
(* The bit reader: BitStream                                               *)
(***************************************************************************)
RECURSIVE BytesBits(_, _, _)
\* the bits of bytes b[from..to], little-endian
BytesBits(b, from, to) ==
    IF from > to THEN <<>>
    ELSE ToBits(b[from], 8) \o BytesBits(b, from + 1, to)

\* BitStream::new
BitStream_new(b) == [low |-> BytesBits(b, 1, 8), high |-> BytesBits(b, 9, 16)]

\* a reader that forgets to carry the low bits of "high" into "low"
read_bits_nocarry(bs, n) ==
    LET mask == Ones(n) \o Zeros(64 - n)
    IN [bits |-> SubSeq(BitAnd(bs.low, mask), 1, 32),
        bs   |-> [low |-> Shr(bs.low, n), high |-> Shr(bs.high, n)]]

\* BitStream::read_bits(num_bits), 1 <= num_bits <= 32: the u32 read and the
\* stream left
read_bits(bs, n) ==
    LET mask == Ones(n) \o Zeros(64 - n)
        bits == SubSeq(BitAnd(bs.low, mask), 1, 32)
        low1 == Shr(bs.low, n)
        low2 == BitOr(low1, Shl(BitAnd(bs.high, mask), 64 - n))
    IN [bits |-> bits, bs |-> [low |-> low2, high |-> Shr(bs.high, n)]]

EmptyStream == [low |-> Zeros(64), high |-> Zeros(64)]

(***************************************************************************)
(* The block decoder: decode_block_bc7                                     *)
(***************************************************************************)
\* ACTUAL_BITS_COUNT[0] (colour) and [1] (alpha), by mode
ACTUAL_BITS_COUNT == << <<4, 6, 5, 7, 5, 7, 7, 5>>, <<0, 0, 0, 0, 6, 8, 7, 5>> >>

WEIGHT2 == <<0, 21, 43, 64>>

WEIGHT3 == <<0, 9, 18, 27, 37, 46, 55, 64>>

WEIGHT4 == <<0, 4, 9, 13, 17, 21, 26, 30, 34, 38, 43, 47, 51, 55, 60, 64>>

\* 0b11001011: modes 0, 1, 3, 6 and 7
MODE_HAS_P_BITS == 203

\* PARTITION_SETS[num_partitions - 2][partition][i][j], the 16 texels of a
\* partition in raster order: bits 0-1 the subset, bit 7 the fix-up flag
PARTITION_SETS_2 == <<
    <<128, 0, 1, 1, 0, 0, 1, 1, 0, 0, 1, 1, 0, 0, 1, 129>>,
    <<128, 0, 0, 1, 0, 0, 0, 1, 0, 0, 0, 1, 0, 0, 0, 129>>,
    <<128, 1, 1, 1, 0, 1, 1, 1, 0, 1, 1, 1, 0, 1, 1, 129>>,
    <<128, 0, 0, 1, 0, 0, 1, 1, 0, 0, 1, 1, 0, 1, 1, 129>>,
    <<128, 0, 0, 0, 0, 0, 0, 1, 0, 0, 0, 1, 0, 0, 1, 129>>,
    <<128, 0, 1, 1, 0, 1, 1, 1, 0, 1, 1, 1, 1, 1, 1, 129>>,
    <<128, 0, 0, 1, 0, 0, 1, 1, 0, 1, 1, 1, 1, 1, 1, 129>>,
    <<128, 0, 0, 0, 0, 0, 0, 1, 0, 0, 1, 1, 0, 1, 1, 129>>,
    <<128, 0, 0, 0, 0, 0, 0, 0, 0, 0, 0, 1, 0, 0, 1, 129>>,
    <<128, 0, 1, 1, 0, 1, 1, 1, 1, 1, 1, 1, 1, 1, 1, 129>>,
    <<128, 0, 0, 0, 0, 0, 0, 1, 0, 1, 1, 1, 1, 1, 1, 129>>,
    <<128, 0, 0, 0, 0, 0, 0, 0, 0, 0, 0, 1, 0, 1, 1, 129>>,
    <<128, 0, 0, 1, 0, 1, 1, 1, 1, 1, 1, 1, 1, 1, 1, 129>>,
    <<128, 0, 0, 0, 0, 0, 0, 0, 1, 1, 1, 1, 1, 1, 1, 129>>,
    <<128, 0, 0, 0, 1, 1, 1, 1, 1, 1, 1, 1, 1, 1, 1, 129>>,
    <<128, 0, 0, 0, 0, 0, 0, 0, 0, 0, 0, 0, 1, 1, 1, 129>>,
    <<128, 0, 0, 0, 1, 0, 0, 0, 1, 1, 1, 0, 1, 1, 1, 129>>,
    <<128, 1, 129, 1, 0, 0, 0, 1, 0, 0, 0, 0, 0, 0, 0, 0>>,
    <<128, 0, 0, 0, 0, 0, 0, 0, 129, 0, 0, 0, 1, 1, 1, 0>>,
    <<128, 1, 129, 1, 0, 0, 1, 1, 0, 0, 0, 1, 0, 0, 0, 0>>,
    <<128, 0, 129, 1, 0, 0, 0, 1, 0, 0, 0, 0, 0, 0, 0, 0>>,
    <<128, 0, 0, 0, 1, 0, 0, 0, 129, 1, 0, 0, 1, 1, 1, 0>>,
    <<128, 0, 0, 0, 0, 0, 0, 0, 129, 0, 0, 0, 1, 1, 0, 0>>,
    <<128, 1, 1, 1, 0, 0, 1, 1, 0, 0, 1, 1, 0, 0, 0, 129>>,
    <<128, 0, 129, 1, 0, 0, 0, 1, 0, 0, 0, 1, 0, 0, 0, 0>>,
    <<128, 0, 0, 0, 1, 0, 0, 0, 129, 0, 0, 0, 1, 1, 0, 0>>,
    <<128, 1, 129, 0, 0, 1, 1, 0, 0, 1, 1, 0, 0, 1, 1, 0>>,
    <<128, 0, 129, 1, 0, 1, 1, 0, 0, 1, 1, 0, 1, 1, 0, 0>>,
    <<128, 0, 0, 1, 0, 1, 1, 1, 129, 1, 1, 0, 1, 0, 0, 0>>,
    <<128, 0, 0, 0, 1, 1, 1, 1, 129, 1, 1, 1, 0, 0, 0, 0>>,
    <<128, 1, 129, 1, 0, 0, 0, 1, 1, 0, 0, 0, 1, 1, 1, 0>>,
    <<128, 0, 129, 1, 1, 0, 0, 1, 1, 0, 0, 1, 1, 1, 0, 0>>,
    <<128, 1, 0, 1, 0, 1, 0, 1, 0, 1, 0, 1, 0, 1, 0, 129>>,
    <<128, 0, 0, 0, 1, 1, 1, 1, 0, 0, 0, 0, 1, 1, 1, 129>>,
    <<128, 1, 0, 1, 1, 0, 129, 0, 0, 1, 0, 1, 1, 0, 1, 0>>,
    <<128, 0, 1, 1, 0, 0, 1, 1, 129, 1, 0, 0, 1, 1, 0, 0>>,
    <<128, 0, 129, 1, 1, 1, 0, 0, 0, 0, 1, 1, 1, 1, 0, 0>>,
    <<128, 1, 0, 1, 0, 1, 0, 1, 129, 0, 1, 0, 1, 0, 1, 0>>,
    <<128, 1, 1, 0, 1, 0, 0, 1, 0, 1, 1, 0, 1, 0, 0, 129>>,
    <<128, 1, 0, 1, 1, 0, 1, 0, 1, 0, 1, 0, 0, 1, 0, 129>>,
    <<128, 1, 129, 1, 0, 0, 1, 1, 1, 1, 0, 0, 1, 1, 1, 0>>,
    <<128, 0, 0, 1, 0, 0, 1, 1, 129, 1, 0, 0, 1, 0, 0, 0>>,
    <<128, 0, 129, 1, 0, 0, 1, 0, 0, 1, 0, 0, 1, 1, 0, 0>>,
    <<128, 0, 129, 1, 1, 0, 1, 1, 1, 1, 0, 1, 1, 1, 0, 0>>,
    <<128, 1, 129, 0, 1, 0, 0, 1, 1, 0, 0, 1, 0, 1, 1, 0>>,
    <<128, 0, 1, 1, 1, 1, 0, 0, 1, 1, 0, 0, 0, 0, 1, 129>>,
    <<128, 1, 1, 0, 0, 1, 1, 0, 1, 0, 0, 1, 1, 0, 0, 129>>,
    <<128, 0, 0, 0, 0, 1, 129, 0, 0, 1, 1, 0, 0, 0, 0, 0>>,
    <<128, 1, 0, 0, 1, 1, 129, 0, 0, 1, 0, 0, 0, 0, 0, 0>>,
    <<128, 0, 129, 0, 0, 1, 1, 1, 0, 0, 1, 0, 0, 0, 0, 0>>,
    <<128, 0, 0, 0, 0, 0, 129, 0, 0, 1, 1, 1, 0, 0, 1, 0>>,
    <<128, 0, 0, 0, 0, 1, 0, 0, 129, 1, 1, 0, 0, 1, 0, 0>>,
    <<128, 1, 1, 0, 1, 1, 0, 0, 1, 0, 0, 1, 0, 0, 1, 129>>,
    <<128, 0, 1, 1, 0, 1, 1, 0, 1, 1, 0, 0, 1, 0, 0, 129>>,
    <<128, 1, 129, 0, 0, 0, 1, 1, 1, 0, 0, 1, 1, 1, 0, 0>>,
    <<128, 0, 129, 1, 1, 0, 0, 1, 1, 1, 0, 0, 0, 1, 1, 0>>,
    <<128, 1, 1, 0, 1, 1, 0, 0, 1, 1, 0, 0, 1, 0, 0, 129>>,
    <<128, 1, 1, 0, 0, 0, 1, 1, 0, 0, 1, 1, 1, 0, 0, 129>>,
    <<128, 1, 1, 1, 1, 1, 1, 0, 1, 0, 0, 0, 0, 0, 0, 129>>,
    <<128, 0, 0, 1, 1, 0, 0, 0, 1, 1, 1, 0, 0, 1, 1, 129>>,
    <<128, 0, 0, 0, 1, 1, 1, 1, 0, 0, 1, 1, 0, 0, 1, 129>>,
    <<128, 0, 129, 1, 0, 0, 1, 1, 1, 1, 1, 1, 0, 0, 0, 0>>,
    <<128, 0, 129, 0, 0, 0, 1, 0, 1, 1, 1, 0, 1, 1, 1, 0>>,
    <<128, 1, 0, 0, 0, 1, 0, 0, 0, 1, 1, 1, 0, 1, 1, 129>>
    >>

PARTITION_SETS_3 == <<
    <<128, 0, 1, 129, 0, 0, 1, 1, 0, 2, 2, 1, 2, 2, 2, 130>>,
    <<128, 0, 0, 129, 0, 0, 1, 1, 130, 2, 1, 1, 2, 2, 2, 1>>,
    <<128, 0, 0, 0, 2, 0, 0, 1, 130, 2, 1, 1, 2, 2, 1, 129>>,
    <<128, 2, 2, 130, 0, 0, 2, 2, 0, 0, 1, 1, 0, 1, 1, 129>>,
    <<128, 0, 0, 0, 0, 0, 0, 0, 129, 1, 2, 2, 1, 1, 2, 130>>,
    <<128, 0, 1, 129, 0, 0, 1, 1, 0, 0, 2, 2, 0, 0, 2, 130>>,
    <<128, 0, 2, 130, 0, 0, 2, 2, 1, 1, 1, 1, 1, 1, 1, 129>>,
    <<128, 0, 1, 1, 0, 0, 1, 1, 130, 2, 1, 1, 2, 2, 1, 129>>,
    <<128, 0, 0, 0, 0, 0, 0, 0, 129, 1, 1, 1, 2, 2, 2, 130>>,
    <<128, 0, 0, 0, 1, 1, 1, 1, 129, 1, 1, 1, 2, 2, 2, 130>>,
    <<128, 0, 0, 0, 1, 1, 129, 1, 2, 2, 2, 2, 2, 2, 2, 130>>,
    <<128, 0, 1, 2, 0, 0, 129, 2, 0, 0, 1, 2, 0, 0, 1, 130>>,
    <<128, 1, 1, 2, 0, 1, 129, 2, 0, 1, 1, 2, 0, 1, 1, 130>>,
    <<128, 1, 2, 2, 0, 129, 2, 2, 0, 1, 2, 2, 0, 1, 2, 130>>,
    <<128, 0, 1, 129, 0, 1, 1, 2, 1, 1, 2, 2, 1, 2, 2, 130>>,
    <<128, 0, 1, 129, 2, 0, 0, 1, 130, 2, 0, 0, 2, 2, 2, 0>>,
    <<128, 0, 0, 129, 0, 0, 1, 1, 0, 1, 1, 2, 1, 1, 2, 130>>,
    <<128, 1, 1, 129, 0, 0, 1, 1, 130, 0, 0, 1, 2, 2, 0, 0>>,
    <<128, 0, 0, 0, 1, 1, 2, 2, 129, 1, 2, 2, 1, 1, 2, 130>>,
    <<128, 0, 2, 130, 0, 0, 2, 2, 0, 0, 2, 2, 1, 1, 1, 129>>,
    <<128, 1, 1, 129, 0, 1, 1, 1, 0, 2, 2, 2, 0, 2, 2, 130>>,
    <<128, 0, 0, 129, 0, 0, 0, 1, 130, 2, 2, 1, 2, 2, 2, 1>>,
    <<128, 0, 0, 0, 0, 0, 129, 1, 0, 1, 2, 2, 0, 1, 2, 130>>,
    <<128, 0, 0, 0, 1, 1, 0, 0, 130, 2, 129, 0, 2, 2, 1, 0>>,
    <<128, 1, 2, 130, 0, 129, 2, 2, 0, 0, 1, 1, 0, 0, 0, 0>>,
    <<128, 0, 1, 2, 0, 0, 1, 2, 129, 1, 2, 2, 2, 2, 2, 130>>,
    <<128, 1, 1, 0, 1, 2, 130, 1, 129, 2, 2, 1, 0, 1, 1, 0>>,
    <<128, 0, 0, 0, 0, 1, 129, 0, 1, 2, 130, 1, 1, 2, 2, 1>>,
    <<128, 0, 2, 2, 1, 1, 0, 2, 129, 1, 0, 2, 0, 0, 2, 130>>,
    <<128, 1, 1, 0, 0, 129, 1, 0, 2, 0, 0, 2, 2, 2, 2, 130>>,
    <<128, 0, 1, 1, 0, 1, 2, 2, 0, 1, 130, 2, 0, 0, 1, 129>>,
    <<128, 0, 0, 0, 2, 0, 0, 0, 130, 2, 1, 1, 2, 2, 2, 129>>,
    <<128, 0, 0, 0, 0, 0, 0, 2, 129, 1, 2, 2, 1, 2, 2, 130>>,
    <<128, 2, 2, 130, 0, 0, 2, 2, 0, 0, 1, 2, 0, 0, 1, 129>>,
    <<128, 0, 1, 129, 0, 0, 1, 2, 0, 0, 2, 2, 0, 2, 2, 130>>,
    <<128, 1, 2, 0, 0, 129, 2, 0, 0, 1, 130, 0, 0, 1, 2, 0>>,
    <<128, 0, 0, 0, 1, 1, 129, 1, 2, 2, 130, 2, 0, 0, 0, 0>>,
    <<128, 1, 2, 0, 1, 2, 0, 1, 130, 0, 129, 2, 0, 1, 2, 0>>,
    <<128, 1, 2, 0, 2, 0, 1, 2, 129, 130, 0, 1, 0, 1, 2, 0>>,
    <<128, 0, 1, 1, 2, 2, 0, 0, 1, 1, 130, 2, 0, 0, 1, 129>>,
    <<128, 0, 1, 1, 1, 1, 130, 2, 2, 2, 0, 0, 0, 0, 1, 129>>,
    <<128, 1, 0, 129, 0, 1, 0, 1, 2, 2, 2, 2, 2, 2, 2, 130>>,
    <<128, 0, 0, 0, 0, 0, 0, 0, 130, 1, 2, 1, 2, 1, 2, 129>>,
    <<128, 0, 2, 2, 1, 129, 2, 2, 0, 0, 2, 2, 1, 1, 2, 130>>,
    <<128, 0, 2, 130, 0, 0, 1, 1, 0, 0, 2, 2, 0, 0, 1, 129>>,
    <<128, 2, 2, 0, 1, 2, 130, 1, 0, 2, 2, 0, 1, 2, 2, 129>>,
    <<128, 1, 0, 1, 2, 2, 130, 2, 2, 2, 2, 2, 0, 1, 0, 129>>,
    <<128, 0, 0, 0, 2, 1, 2, 1, 130, 1, 2, 1, 2, 1, 2, 129>>,
    <<128, 1, 0, 129, 0, 1, 0, 1, 0, 1, 0, 1, 2, 2, 2, 130>>,
    <<128, 2, 2, 130, 0, 1, 1, 1, 0, 2, 2, 2, 0, 1, 1, 129>>,
    <<128, 0, 0, 2, 1, 129, 1, 2, 0, 0, 0, 2, 1, 1, 1, 130>>,
    <<128, 0, 0, 0, 2, 129, 1, 2, 2, 1, 1, 2, 2, 1, 1, 130>>,
    <<128, 2, 2, 2, 0, 129, 1, 1, 0, 1, 1, 1, 0, 2, 2, 130>>,
    <<128, 0, 0, 2, 1, 1, 1, 2, 129, 1, 1, 2, 0, 0, 0, 130>>,
    <<128, 1, 1, 0, 0, 129, 1, 0, 0, 1, 1, 0, 2, 2, 2, 130>>,
    <<128, 0, 0, 0, 0, 0, 0, 0, 2, 1, 129, 2, 2, 1, 1, 130>>,
    <<128, 1, 1, 0, 0, 129, 1, 0, 2, 2, 2, 2, 2, 2, 2, 130>>,
    <<128, 0, 2, 2, 0, 0, 1, 1, 0, 0, 129, 1, 0, 0, 2, 130>>,
    <<128, 0, 2, 2, 1, 1, 2, 2, 129, 1, 2, 2, 0, 0, 2, 130>>,
    <<128, 0, 0, 0, 0, 0, 0, 0, 0, 0, 0, 0, 2, 129, 1, 130>>,
    <<128, 0, 0, 130, 0, 0, 0, 1, 0, 0, 0, 2, 0, 0, 0, 129>>,
    <<128, 2, 2, 2, 1, 2, 2, 2, 0, 2, 2, 2, 129, 2, 2, 130>>,
    <<128, 1, 0, 129, 2, 2, 2, 2, 2, 2, 2, 2, 2, 2, 2, 130>>,
    <<128, 1, 1, 129, 2, 0, 1, 1, 130, 2, 0, 1, 2, 2, 2, 0>>
    >>


\* (MODE_HAS_P_BITS >> mode) & 1
HasPBit(mode) == (MODE_HAS_P_BITS \div Pow2(mode)) % 2

\* a | b on non-negative i32 values below 2^16
IntOr(a, b) == BitsVal(BitOr(ToBits(a, 16), ToBits(b, 16)), 16)

RECURSIVE FindMode(_, _)
\* the loop "while mode < 8 && bstream.read_bit() == 0 { mode += 1 }"
FindMode(bs, mode) ==
    IF mode >= 8 THEN [mode |-> mode, bs |-> bs]
    ELSE LET r == read_bits(bs, 1)
         IN IF BitsVal(r.bits, 1) = 0 THEN FindMode(r.bs, mode + 1)
            ELSE [mode |-> mode, bs |-> r.bs]

RECURSIVE ReadSeq(_, _, _)
\* read_bits called once per width of the list, in order
ReadSeq(bs, widths, acc) ==
    IF widths = <<>> THEN [vals |-> acc, bs |-> bs]
    ELSE LET r == read_bits(bs, Head(widths))
         IN ReadSeq(r.bs, Tail(widths),
                    Append(acc, BitsVal(r.bits, Head(widths))))

\* a table look-up that loses the fix-up flag of the partitioned modes
PartitionSet_noflag(num_partitions, partition, k) ==
    IF num_partitions = 1 THEN (IF k = 0 THEN 128 ELSE 0)
    ELSE IF num_partitions = 2 THEN PARTITION_SETS_2[partition + 1][k + 1] % 128
    ELSE PARTITION_SETS_3[partition + 1][k + 1] % 128

\* the entry of the partition table for texel k = 4 i + j (0-based)
PartitionSet(num_partitions, partition, k) ==
    IF num_partitions = 1 THEN (IF k = 0 THEN 128 ELSE 0)
    ELSE IF num_partitions = 2 THEN PARTITION_SETS_2[partition + 1][k + 1]
    ELSE PARTITION_SETS_3[partition + 1][k + 1]

IndexBits(mode) == IF mode \in {0, 1} THEN 3 ELSE IF mode = 6 THEN 4 ELSE 2

IndexBits2(mode) == IF mode = 4 THEN 3 ELSE IF mode = 5 THEN 2 ELSE 0

Const(n, v) == [k \in 1..n |-> v]

\* the fields of a block whose mode is 0..7, read in the decoder's order;
\* m is the result of FindMode
ParseFields(m) ==
    LET mode == m.mode
        partitioned == mode \in {0, 1, 2, 3, 7}
        num_partitions == IF partitioned
                          THEN (IF mode = 0 \/ mode = 2 THEN 3 ELSE 2) ELSE 1
        hdrW == IF partitioned THEN <<IF mode = 0 THEN 4 ELSE 6>>
                ELSE IF mode = 4 THEN <<2, 1>>
                ELSE IF mode = 5 THEN <<2>> ELSE <<>>
        h == ReadSeq(m.bs, hdrW, <<>>)
        partition == IF partitioned THEN h.vals[1] ELSE 0
        rotation == IF mode \in {4, 5} THEN h.vals[1] ELSE 0
        isb == IF mode = 4 THEN h.vals[2] ELSE 0
        ne == num_partitions * 2
        cb == ACTUAL_BITS_COUNT[1][mode + 1]
        ab == ACTUAL_BITS_COUNT[2][mode + 1]
        epW == Const(3 * ne, cb) \o (IF ab > 0 THEN Const(ne, ab) ELSE <<>>)
        e == ReadSeq(h.bs, epW, <<>>)
        pbW == IF mode = 1 THEN <<1, 1>>
               ELSE IF mode \in {0, 3, 6, 7} /\ HasPBit(mode) = 1
               THEN Const(ne, 1) ELSE <<>>
        p == ReadSeq(e.bs, pbW, <<>>)
        idxW == [k \in 1..16 |->
                   IF PartitionSet(num_partitions, partition, k - 1) >= 128
                   THEN IndexBits(mode) - 1 ELSE IndexBits(mode)]
        i1 == ReadSeq(p.bs, idxW, <<>>)
        idx2W == IF IndexBits2(mode) = 0 THEN <<>>
                 ELSE [k \in 1..16 |-> IF k = 1 THEN IndexBits2(mode) - 1
                                       ELSE IndexBits2(mode)]
        i2 == ReadSeq(i1.bs, idx2W, <<>>)
    IN [mode |-> mode,
        num_partitions |-> num_partitions,
        partition |-> partition,
        rotation |-> rotation,
        index_selection_bit |-> isb,
        \* endpoints[j][c] as read, j = 0..ne-1, c = 0..3
        raw |-> [j \in 1..ne |-> [c \in 1..4 |->
                   IF c <= 3 THEN e.vals[(c - 1) * ne + j]
                   ELSE IF ab > 0 THEN e.vals[3 * ne + j] ELSE 0]],
        pbits |-> p.vals,
        indices |-> i1.vals,
        indices2 |-> i2.vals,
        \* the width of every read_bits call made, the mode bits included
        widths |-> Const(mode + 1, 1) \o hdrW \o epW \o pbW \o idxW \o idx2W,
        rest |-> i2.bs]

\* the endpoint expansion without the step that sets alpha to 255 in the
\* modes that store no alpha
FullEndpoints_storedalpha(f) ==
    LET mode == f.mode
        shift == IF mode \in {0, 1, 3, 6, 7} THEN 2 ELSE 1
        withP(j, c) ==
            LET v == f.raw[j][c] * shift
            IN IF mode = 1
               THEN (IF c <= 3 THEN IntOr(v, f.pbits[((j - 1) \div 2) + 1]) ELSE v)
               ELSE IF mode \in {0, 3, 6, 7} /\ HasPBit(mode) = 1
               THEN IntOr(v, f.pbits[j]) ELSE v
        expand(v, prec) ==
            LET a == v * Pow2(8 - prec)
            IN IntOr(a, a \div Pow2(prec))
        cprec == ACTUAL_BITS_COUNT[1][mode + 1] + HasPBit(mode)
        aprec == ACTUAL_BITS_COUNT[2][mode + 1] + HasPBit(mode)
    IN [j \in 1..Len(f.raw) |-> [c \in 1..4 |->
          IF c <= 3 THEN expand(withP(j, c), cprec)
          ELSE expand(withP(j, c), aprec)]]

\* "Fully decode endpoints": the p-bits, then the expansion to 8 bits
FullEndpoints(f) ==
    LET mode == f.mode
        shift == IF mode \in {0, 1, 3, 6, 7} THEN 2 ELSE 1
        withP(j, c) ==
            LET v == f.raw[j][c] * shift
            IN IF mode = 1
               THEN (IF c <= 3 THEN IntOr(v, f.pbits[((j - 1) \div 2) + 1]) ELSE v)
               ELSE IF mode \in {0, 3, 6, 7} /\ HasPBit(mode) = 1
               THEN IntOr(v, f.pbits[j]) ELSE v
        expand(v, prec) ==
            LET a == v * Pow2(8 - prec)
            IN IntOr(a, a \div Pow2(prec))
        cprec == ACTUAL_BITS_COUNT[1][mode + 1] + HasPBit(mode)
        aprec == ACTUAL_BITS_COUNT[2][mode + 1] + HasPBit(mode)
    IN [j \in 1..Len(f.raw) |-> [c \in 1..4 |->
          IF c <= 3 THEN expand(withP(j, c), cprec)
          ELSE IF ACTUAL_BITS_COUNT[2][mode + 1] = 0 THEN 255
          ELSE expand(withP(j, c), aprec)]]

Weights(bits) == IF bits = 2 THEN WEIGHT2 ELSE IF bits = 3 THEN WEIGHT3 ELSE WEIGHT4

Weights2(bits2) == IF bits2 = 2 THEN WEIGHT2 ELSE WEIGHT3

\* an interpolation that forgets the rounding term
interpolate_noround(a, b, weights, index) ==
    (a * (64 - weights[index + 1]) + b * weights[index + 1]) \div 64

interpolate(a, b, weights, index) ==
    (a * (64 - weights[index + 1]) + b * weights[index + 1] + 32) \div 64

\* the (r, g, b, a) of texel k (0-based, raster order) before "as u8"
Texel(f, ep, k) ==
    LET subset == PartitionSet(f.num_partitions, f.partition, k) % 4
        A == ep[subset * 2 + 1]
        B == ep[subset * 2 + 2]
        w == Weights(IndexBits(f.mode))
        w2 == Weights2(IndexBits2(f.mode))
        index == f.indices[k + 1]
        rgba == IF IndexBits2(f.mode) = 0
                THEN [c \in 1..4 |-> interpolate(A[c], B[c], w, index)]
                ELSE IF f.index_selection_bit = 0
                THEN [c \in 1..4 |->
                        IF c <= 3 THEN interpolate(A[c], B[c], w, index)
                        ELSE interpolate(A[c], B[c], w2, f.indices2[k + 1])]
                ELSE [c \in 1..4 |->
                        IF c <= 3 THEN interpolate(A[c], B[c], w2, f.indices2[k + 1])
                        ELSE interpolate(A[c], B[c], w, index)]
        rot == f.rotation
    IN IF rot \in {1, 2, 3}
       THEN [c \in 1..4 |-> IF c = rot THEN rgba[4]
                            ELSE IF c = 4 THEN rgba[rot] ELSE rgba[c]]
       ELSE rgba

\* the 16 texels a block decodes to, each <<r, g, b, a>> as bytes
DecodeTexels(cb) ==
    LET m == FindMode(BitStream_new(cb), 0)
    IN IF m.mode >= 8 THEN [k \in 1..16 |-> <<0, 0, 0, 0>>]
       ELSE LET f == ParseFields(m)
                ep == FullEndpoints(f)
            IN [k \in 1..16 |-> [c \in 1..4 |-> Texel(f, ep, k - 1)[c] % 256]]

RECURSIVE WriteTexels(_, _, _, _, _)
\* the writes of texels k..15 into the destination, in raster order; an
\* index past the end of the destination panics, and what was written
\* before stays written.  Bytes are stored one by one for a valid block
\* and four at a time (copy_from_slice) for an invalid one.
WriteTexels(out, texels, pitch, k, bytewise) ==
    IF k > 15 THEN [out |-> out, panicked |-> FALSE]
    ELSE LET offset == (k \div 4) * pitch + (k % 4) * 4
             fits == Len(out) - offset
             n == IF fits >= 4 THEN 4
                  ELSE IF bytewise /\ fits > 0 THEN fits ELSE 0
             o1 == [b \in 1..Len(out) |->
                      IF b > offset /\ b <= offset + n
                      THEN texels[k + 1][b - offset] ELSE out[b]]
         IN IF fits >= 4 THEN WriteTexels(o1, texels, pitch, k + 1, bytewise)
            ELSE [out |-> o1, panicked |-> TRUE]

\* a decoder that returns from an invalid block without clearing the
\* destination
decode_block_bc7_noclear(cb, out, pitch) ==
    IF FindMode(BitStream_new(cb), 0).mode >= 8
    THEN [out |-> out, panicked |-> FALSE]
    ELSE WriteTexels(out, DecodeTexels(cb), pitch, 0, TRUE)

\* a decoder that does not store a texel that decodes to four zero bytes
decode_block_bc7_skipzero(cb, out, pitch) ==
    LET keep(texels) ==
            [k \in 1..16 |->
                LET offset == ((k - 1) \div 4) * pitch + ((k - 1) % 4) * 4
                IN IF texels[k] = <<0, 0, 0, 0>>
                   THEN SubSeq(out, offset + 1, offset + 4) ELSE texels[k]]
    IN WriteTexels(out, keep(DecodeTexels(cb)), pitch, 0,
                   FindMode(BitStream_new(cb), 0).mode < 8)

\* decode_block_bc7(compressed_block, decompressed_block, destination_pitch)
decode_block_bc7(cb, out, pitch) ==
    WriteTexels(out, DecodeTexels(cb), pitch, 0,
                FindMode(BitStream_new(cb), 0).mode < 8)

(***************************************************************************)
(* The block coder: bc7_code_mode01237, bc7_code_mode45, bc7_code_mode6    *)
(***************************************************************************)
\* PATTERN_MASK_TABLE[part_id] as <<low 16 bits, high 16 bits>>: the texels
\* of subset 0 and of subset 1
PATTERN_MASK_TABLE == <<
    <<13107, 52428>>, <<30583, 34952>>, <<4369, 61166>>, <<4919, 60616>>,
    <<14207, 51328>>, <<275, 65260>>, <<311, 65224>>, <<4991, 60544>>,
    <<14335, 51200>>, <<19, 65516>>, <<383, 65152>>, <<6143, 59392>>,
    <<23, 65512>>, <<255, 65280>>, <<15, 65520>>, <<4095, 61440>>,
    <<2287, 63248>>, <<65393, 142>>, <<36607, 28928>>, <<63281, 2254>>,
    <<65395, 140>>, <<36079, 29456>>, <<52991, 12544>>, <<29489, 36046>>,
    <<63347, 2188>>, <<52975, 12560>>, <<39321, 26214>>, <<51603, 13932>>,
    <<59415, 6120>>, <<61455, 4080>>, <<36465, 29070>>, <<50787, 14748>>,
    <<21845, 43690>>, <<3855, 61680>>, <<42405, 23130>>, <<52275, 13260>>,
    <<50115, 15420>>, <<43605, 21930>>, <<26985, 38550>>, <<23205, 42330>>,
    <<35889, 29646>>, <<60471, 5064>>, <<52659, 12876>>, <<50211, 15324>>,
    <<38505, 27030>>, <<15555, 49980>>, <<26265, 39270>>, <<63903, 1632>>,
    <<64909, 626>>, <<64283, 1252>>, <<45503, 20032>>, <<55519, 10016>>,
    <<14025, 51510>>, <<27795, 37740>>, <<50745, 14790>>, <<40035, 25500>>,
    <<27849, 37686>>, <<25401, 40134>>, <<32385, 33150>>, <<6375, 59160>>,
    <<13071, 52464>>, <<61491, 4044>>, <<35003, 30532>>, <<4573, 60962>>,
    <<307, 2252>>, <<55, 36040>>, <<111, 52352>>, <<4913, 60416>>,
    <<255, 13056>>, <<13107, 204>>, <<51, 65280>>, <<51, 52428>>,
    <<255, 3840>>, <<15, 4080>>, <<15, 240>>, <<13107, 17476>>,
    <<4369, 26214>>, <<4369, 8738>>, <<19, 4972>>, <<35939, 140>>,
    <<311, 14024>>, <<50737, 2254>>, <<15, 13104>>, <<819, 61440>>,
    <<4369, 238>>, <<119, 34952>>, <<4415, 8896>>, <<35023, 17456>>,
    <<62225, 3106>>, <<51, 836>>, <<36873, 27030>>, <<159, 39264>>,
    <<13379, 816>>, <<1689, 102>>, <<12563, 49708>>, <<239, 35840>>,
    <<127, 4864>>, <<13105, 50176>>, <<4915, 76>>, <<39321, 8738>>,
    <<61455, 240>>, <<37449, 9362>>, <<37929, 10562>>, <<12483, 49932>>,
    <<15363, 49212>>, <<85, 170>>, <<255, 43520>>, <<771, 12336>>,
    <<13107, 49344>>, <<2313, 37008>>, <<20485, 40970>>, <<15, 43680>>,
    <<1365, 2730>>, <<4369, 57568>>, <<1799, 28784>>, <<15, 26208>>,
    <<4369, 3808>>, <<28679, 1904>>, <<2457, 1638>>, <<255, 26112>>,
    <<153, 102>>, <<13107, 3264>>, <<12291, 816>>, <<4095, 24576>>,
    <<30583, 32896>>, <<257, 4112>>, <<5, 10>>, <<33825, 2254>>
    >>

\* SKIP_TABLE[part_id]: two fix-up texels, four bits each
SKIP_TABLE == <<
    240, 240, 240, 240, 240, 240, 240, 240, 240, 240, 240, 240, 240, 240, 240, 240,
    240, 32, 128, 32, 32, 128, 128, 240, 32, 128, 32, 32, 128, 128, 32, 32,
    240, 240, 96, 128, 32, 128, 240, 240, 32, 128, 32, 32, 32, 240, 240, 96,
    96, 32, 96, 128, 240, 240, 32, 32, 240, 240, 240, 240, 240, 32, 32, 240,
    63, 56, 248, 243, 143, 63, 243, 248, 143, 143, 111, 111, 111, 95, 63, 56,
    63, 56, 143, 243, 63, 56, 111, 168, 83, 143, 134, 106, 143, 95, 250, 248,
    143, 243, 63, 90, 106, 168, 137, 250, 246, 63, 248, 95, 243, 246, 246, 248,
    63, 243, 95, 95, 95, 143, 95, 175, 95, 175, 143, 223, 243, 207, 63, 56
    >>

\* (1 << n) - 1 on u32, n < 32
LowMask(n) == [i \in 1..32 |-> IF i <= n THEN 1 ELSE 0]

RECURSIVE AddBits(_, _, _, _)
\* the bits i.. of a + b + carry, the carry out of the top bit dropped
AddBits(a, b, i, carry) ==
    IF i > Len(a) THEN <<>>
    ELSE <<(a[i] + b[i] + carry) % 2>>
         \o AddBits(a, b, i + 1, (a[i] + b[i] + carry) \div 2)

\* a - b on u32; b <= a for every index in range, so that the subtraction
\* never overflows
Sub32(a, b) == AddBits(a, BitNot(b), 1, 1)

\* 0x11111111 * v for v < 16
Nibbles(v) == [i \in 1..32 |-> (v \div Pow2((i - 1) % 4)) % 2]

\* the four bits of texel k in a qblock: (qblock[k >> 3] >> (4 * (k & 7))) & 15
Nibble(qblock, k) == BitsVal(Shr(qblock[(k \div 8) + 1], 4 * (k % 8)), 4)

\* get_pattern's PATTERN_TABLE, each u32 as <<low 16 bits, high 16 bits>>
PATTERN_TABLE == <<
    <<20560, 20560>>, <<16448, 16448>>, <<21588, 21588>>, <<20544, 21584>>,
    <<16384, 20544>>, <<21584, 21844>>, <<20544, 21844>>, <<16384, 21584>>,
    <<0, 20544>>, <<21584, 21845>>, <<16384, 21844>>, <<0, 21568>>,
    <<21568, 21845>>, <<0, 21845>>, <<21760, 21845>>, <<0, 21760>>,
    <<256, 21781>>, <<16468, 0>>, <<0, 5377>>, <<20564, 64>>,
    <<16464, 0>>, <<256, 5381>>, <<0, 1281>>, <<20564, 16464>>,
    <<16464, 64>>, <<256, 1281>>, <<5140, 5140>>, <<5200, 1300>>,
    <<21568, 277>>, <<21760, 85>>, <<16468, 5377>>, <<16720, 1345>>,
    <<17476, 17476>>, <<21760, 21760>>, <<4420, 4420>>, <<20560, 1285>>,
    <<1360, 1360>>, <<17476, 4369>>, <<16660, 16660>>, <<4420, 17425>>,
    <<20564, 5381>>, <<20544, 261>>, <<4176, 1284>>, <<20816, 1349>>,
    <<16660, 5185>>, <<1360, 20485>>, <<5140, 16705>>, <<5120, 20>>,
    <<5380, 4>>, <<21520, 16>>, <<4096, 4180>>, <<1024, 1045>>,
    <<1300, 20545>>, <<5200, 16645>>, <<20500, 1345>>, <<16720, 5125>>,
    <<1300, 16645>>, <<20500, 16720>>, <<5460, 16385>>, <<320, 21525>>,
    <<21760, 20560>>, <<20560, 85>>, <<4112, 5397>>, <<1028, 21588>>,
    <<20560, 43624>>, <<20544, 27226>>, <<16896, 23130>>, <<41128, 21584>>,
    <<0, 42405>>, <<20560, 41120>>, <<41120, 21845>>, <<20560, 23130>>,
    <<0, 43605>>, <<21760, 43605>>, <<21760, 43690>>, <<37008, 37008>>,
    <<38036, 38036>>, <<42148, 42148>>, <<37968, 43429>>, <<16976, 10762>>,
    <<20544, 42388>>, <<20564, 2626>>, <<42240, 42405>>, <<41120, 21920>>,
    <<21588, 43176>>, <<16448, 27242>>, <<20480, 42148>>, <<1280, 6682>>,
    <<42148, 80>>, <<37008, 43685>>, <<26900, 5225>>, <<5120, 26985>>,
    <<34208, 41093>>, <<5140, 43650>>, <<42064, 20644>>, <<512, 27226>>,
    <<32768, 43429>>, <<41128, 20624>>, <<36944, 43168>>, <<9252, 9252>>,
    <<21760, 170>>, <<18724, 9362>>, <<37412, 9289>>, <<2640, 20645>>,
    <<42320, 20490>>, <<17476, 43690>>, <<0, 26214>>, <<42400, 42400>>,
    <<20640, 20640>>, <<26920, 26920>>, <<43588, 17578>>, <<26112, 26214>>,
    <<17476, 43588>>, <<21672, 21672>>, <<38272, 38272>>, <<38400, 38550>>,
    <<21672, 43092>>, <<38272, 32917>>, <<5140, 43540>>, <<0, 38550>>,
    <<5140, 43690>>, <<20640, 41040>>, <<42400, 41125>>, <<0, 38400>>,
    <<16512, 16512>>, <<43432, 43432>>, <<43588, 43690>>, <<21076, 10826>>
    >>

\* get_pattern(part_id): two bits a texel, texel 0 lowest
get_pattern(part_id) ==
    LET low == U32(PATTERN_TABLE[part_id + 1][1])
        high == U32(PATTERN_TABLE[part_id + 1][2])
    IN [i \in 1..32 |-> IF i <= 16 THEN low[i] ELSE high[i - 16]]

\* a get_skips that reads the two nibbles of SKIP_TABLE the other way round
get_skips_low(part_id) ==
    <<0, SKIP_TABLE[part_id + 1] % 16, SKIP_TABLE[part_id + 1] \div 16>>

get_pattern_mask(part_id, j) ==
    LET mask0 == U32(PATTERN_MASK_TABLE[part_id + 1][1])
        mask1 == U32(PATTERN_MASK_TABLE[part_id + 1][2])
    IN IF j = 2 THEN BitAnd(BitNot(mask0), BitNot(mask1))
       ELSE IF j = 0 THEN mask0 ELSE mask1

get_skips(part_id) ==
    <<0, SKIP_TABLE[part_id + 1] \div 16, SKIP_TABLE[part_id + 1] % 16>>

\* a delete step whose mask keeps one bit more: it takes out the bit at
\* from_bits instead of the one below it
data_shl_1bit_from_at(d, from_bits) ==
    IF from_bits < 96
    THEN LET shifted == BitOr(Shr(d[3], 1), Shl(d[4], 31))
             mask == LowMask(from_bits - 64)
         IN [d EXCEPT ![3] = BitOr(BitAnd(mask, d[3]),
                                   BitAnd(BitNot(mask), shifted)),
                      ![4] = BitOr(Shr(d[4], 1), Shl(d[5], 31)),
                      ![5] = Shr(d[5], 1)]
    ELSE IF from_bits < 128
    THEN LET shifted == BitOr(Shr(d[4], 1), Shl(d[5], 31))
             mask == LowMask(from_bits - 96)
         IN [d EXCEPT ![4] = BitOr(BitAnd(mask, d[4]),
                                   BitAnd(BitNot(mask), shifted)),
                      ![5] = Shr(d[5], 1)]
    ELSE d

\* data_shl_1bit_from(data, from_bits), 64 <= from_bits: the bit at
\* from_bits - 1 is dropped and the bits above it move down by one
data_shl_1bit_from(d, from_bits) ==
    IF from_bits < 96
    THEN LET shifted == BitOr(Shr(d[3], 1), Shl(d[4], 31))
             mask == Shr(LowMask(from_bits - 64), 1)
         IN [d EXCEPT ![3] = BitOr(BitAnd(mask, d[3]),
                                   BitAnd(BitNot(mask), shifted)),
                      ![4] = BitOr(Shr(d[4], 1), Shl(d[5], 31)),
                      ![5] = Shr(d[5], 1)]
    ELSE IF from_bits < 128
    THEN LET shifted == BitOr(Shr(d[4], 1), Shl(d[5], 31))
             mask == Shr(LowMask(from_bits - 96), 1)
         IN [d EXCEPT ![4] = BitOr(BitAnd(mask, d[4]),
                                   BitAnd(BitNot(mask), shifted)),
                      ![5] = Shr(d[5], 1)]
    ELSE d

RECURSIVE PutAll(_, _, _)
\* put_bits called once per <<bits, v>> of the list, in order; the five
\* words hold 160 bits and no caller writes past them
PutAll(d, p, list) ==
    IF list = <<>> THEN [data |-> d, pos |-> p]
    ELSE LET r == put_bits(d, p, Head(list)[1], Head(list)[2])
         IN IF r.pos <= 160 THEN PutAll(r.data, r.pos, Tail(list)) ELSE r

\* bc7_code_qblock(data, qpos, qblock, bits, flips)
bc7_code_qblock(d, qpos, qblock, bits, flips) ==
    LET levels == Pow2(bits)
        q(k) == LET q0 == BitAnd(Shr(qblock[(k \div 8) + 1], 4 * (k % 8)), U32(15))
                IN IF flips[k + 1] = 1 THEN Sub32(U32(levels - 1), q0) ELSE q0
    IN PutAll(d, qpos,
              [k \in 1..16 |-> <<IF k = 1 THEN bits - 1 ELSE bits, q(k - 1)>>])

\* a packer that leaves the fix-up bits of the later subsets in place
bc7_code_adjust_skip_none(d, mode, part_id) == d

\* the offsets bc7_code_adjust_skip_mode01237 hands to data_shl_1bit_from,
\* in the order of its calls: one for each subset after the first, the
\* higher fix-up texel first
SkipOffsets(mode, part_id) ==
    LET pairs == IF mode = 0 \/ mode = 2 THEN 3 ELSE 2
        bits == IF mode = 0 \/ mode = 1 THEN 3 ELSE 2
        sk == get_skips(part_id)
        skips == IF pairs > 2 /\ sk[2] < sk[3] THEN <<sk[1], sk[3], sk[2]>> ELSE sk
    IN [j \in 1..(pairs - 1) |-> 128 + (pairs - 1) - (15 - skips[j + 1]) * bits]

\* bc7_code_adjust_skip_mode01237(data, mode, part_id)
bc7_code_adjust_skip_mode01237(d, mode, part_id) ==
    LET offsets == SkipOffsets(mode, part_id)
        d1 == data_shl_1bit_from(d, offsets[1])
    IN IF Len(offsets) = 2 THEN data_shl_1bit_from(d1, offsets[2]) ELSE d1

\* a canonicalization that never swaps
bc7_code_apply_swap_none(qep, channels, qblock, bits) ==
    [qep |-> qep, qblock |-> qblock]

\* bc7_code_apply_swap_mode456(qep, channels, qblock, bits): the qep and
\* the qblock it leaves
bc7_code_apply_swap_mode456(qep, channels, qblock, bits) ==
    LET levels == Pow2(bits)
    IN IF Nibble(qblock, 0) >= levels \div 2
       THEN [qep |-> [i \in 1..Len(qep) |->
                        IF i <= channels THEN qep[i + channels]
                        ELSE IF i <= 2 * channels THEN qep[i - channels]
                        ELSE qep[i]],
             qblock |-> [w \in 1..2 |-> Sub32(Nibbles(levels - 1), qblock[w])]]
       ELSE [qep |-> qep, qblock |-> qblock]

\* a canonicalization that exchanges the endpoints of a subset and leaves its
\* indices as they are
bc7_code_apply_swap_mode01237_noflip(qep, qblock, mode, part_id) ==
    LET bits == IF mode = 0 \/ mode = 1 THEN 3 ELSE 2
        pairs == IF mode = 0 \/ mode = 2 THEN 3 ELSE 2
        levels == Pow2(bits)
        skips == get_skips(part_id)
        swapped(j) == j < pairs /\ Nibble(qblock, skips[j + 1]) >= levels \div 2
    IN [qep |-> [i \in 1..24 |->
                   IF swapped((i - 1) \div 8)
                   THEN (IF (i - 1) % 8 < 4 THEN qep[i + 4] ELSE qep[i - 4])
                   ELSE qep[i]],
        flips |-> Zeros(32)]

\* bc7_code_apply_swap_mode01237(qep, qblock, mode, part_id): the qep it
\* leaves and the flips it returns
bc7_code_apply_swap_mode01237(qep, qblock, mode, part_id) ==
    LET bits == IF mode = 0 \/ mode = 1 THEN 3 ELSE 2
        pairs == IF mode = 0 \/ mode = 2 THEN 3 ELSE 2
        levels == Pow2(bits)
        skips == get_skips(part_id)
        swapped(j) == j < pairs /\ Nibble(qblock, skips[j + 1]) >= levels \div 2
        pmask(j) == IF swapped(j) THEN get_pattern_mask(part_id, j) ELSE Zeros(32)
    IN [qep |-> [i \in 1..24 |->
                   IF swapped((i - 1) \div 8)
                   THEN (IF (i - 1) % 8 < 4 THEN qep[i + 4] ELSE qep[i - 4])
                   ELSE qep[i]],
        flips |-> BitOr(pmask(0), BitOr(pmask(1), pmask(2)))]

\* bc7_code_mode01237(qep, qblock, part_id, mode) up to and with its call of
\* bc7_code_qblock: the data and the position after the last index written,
\* before the top bits of the fix-up indices are taken out
Mode01237Written(qep, qblock, part_id, mode) ==
    LET bits == IF mode = 0 \/ mode = 1 THEN 3 ELSE 2
        pairs == IF mode = 0 \/ mode = 2 THEN 3 ELSE 2
        channels == IF mode = 7 THEN 4 ELSE 3
        sw == bc7_code_apply_swap_mode01237(qep, qblock, mode, part_id)
        q(j, p) == U32(sw.qep[j * 4 + p + 1])
        header == << <<mode + 1, U32(Pow2(mode))>>,
                     IF mode = 0 THEN <<4, U32(part_id % 16)>>
                     ELSE <<6, U32(part_id % 64)>> >>
        endpoints == [n \in 1..(channels * pairs * 2) |->
                        LET p == (n - 1) \div (pairs * 2)
                            j == (n - 1) % (pairs * 2)
                        IN IF mode = 0 THEN <<4, Shr(q(j, p), 1)>>
                           ELSE IF mode = 1 THEN <<6, Shr(q(j, p), 1)>>
                           ELSE IF mode = 2 THEN <<5, q(j, p)>>
                           ELSE IF mode = 3 THEN <<7, Shr(q(j, p), 1)>>
                           ELSE <<5, Shr(q(j, p), 1)>>]
        pbits == IF mode = 1
                 THEN [j \in 1..2 |-> <<1, BitAnd(U32(sw.qep[(j - 1) * 8 + 1]), U32(1))>>]
                 ELSE IF mode = 0 \/ mode = 3 \/ mode = 7
                 THEN [j \in 1..(pairs * 2) |->
                         <<1, BitAnd(U32(sw.qep[(j - 1) * 4 + 1]), U32(1))>>]
                 ELSE <<>>
        r == PutAll(ZeroData, 0, header \o endpoints \o pbits)
    IN bc7_code_qblock(r.data, r.pos, qblock, bits, sw.flips)

\* bc7_code_mode01237(qep, qblock, part_id, mode): the data it leaves and
\* the position after the last index written
bc7_code_mode01237(qep, qblock, part_id, mode) ==
    LET c == Mode01237Written(qep, qblock, part_id, mode)
    IN [data |-> bc7_code_adjust_skip_mode01237(c.data, mode, part_id),
        pos |-> c.pos]

\* the rotation field written for the encoder's rotation
RotationField(rotation) == (rotation + 1) % 4

\* bc7_code_mode45(params, mode)
bc7_code_mode45(params, mode) ==
    LET bits == 2
        abits == IF mode = 4 THEN 3 ELSE 2
        epbits == IF mode = 4 THEN 5 ELSE 7
        aepbits == IF mode = 4 THEN 6 ELSE 8
        swap == params.swap
        c1 == IF swap = 0
              THEN bc7_code_apply_swap_mode456(params.qep, 4, params.qblock, bits)
              ELSE bc7_code_apply_swap_mode456(params.qep, 4, params.qblock, abits)
        a1 == IF swap = 0
              THEN bc7_code_apply_swap_mode456(params.aqep, 1, params.aqblock, abits)
              ELSE bc7_code_apply_swap_mode456(params.aqep, 1, params.aqblock, bits)
        qep == c1.qep
        aqep == a1.qep
        \* with swap the two blocks change places before they are written
        qblock == IF swap = 0 THEN c1.qblock ELSE a1.qblock
        aqblock == IF swap = 0 THEN a1.qblock ELSE c1.qblock
        header == << <<mode + 1, U32(Pow2(mode))>>,
                     <<2, U32(RotationField(params.rotation))>> >>
                  \o (IF mode = 4 THEN << <<1, U32(swap)>> >> ELSE <<>>)
        endpoints == [n \in 1..6 |->
                        <<epbits, U32(qep[((n - 1) % 2) * 4 + ((n - 1) \div 2) + 1])>>]
        alpha == << <<aepbits, U32(aqep[1])>>, <<aepbits, U32(aqep[2])>> >>
        r == PutAll(ZeroData, 0, header \o endpoints \o alpha)
        c == bc7_code_qblock(r.data, r.pos, qblock, bits, Zeros(32))
    IN bc7_code_qblock(c.data, c.pos, aqblock, abits, Zeros(32))

\* bc7_code_mode6(qep, qblock)
bc7_code_mode6(qep, qblock) ==
    LET sw == bc7_code_apply_swap_mode456(qep, 4, qblock, 4)
        endpoints == [n \in 1..8 |->
                        <<7, Shr(U32(sw.qep[((n - 1) % 2) * 4 + ((n - 1) \div 2) + 1]), 1)>>]
        pbits == << <<1, BitAnd(U32(sw.qep[1]), U32(1))>>,
                    <<1, BitAnd(U32(sw.qep[5]), U32(1))>> >>
        r == PutAll(ZeroData, 0, << <<7, U32(64)>> >> \o endpoints \o pbits)
    IN bc7_code_qblock(r.data, r.pos, sw.qblock, 4, Zeros(32))

\* the [u32; 2] qblock holding the 16 indices idx, four bits each
QBlock(idx) ==
    [w \in 1..2 |-> Word([i \in 1..32 |->
        (idx[(w - 1) * 8 + ((i - 1) \div 4) + 1] \div Pow2((i - 1) % 4)) % 2])]

RECURSIVE SeqSum(_)
SeqSum(q) == IF q = <<>> THEN 0 ELSE Head(q) + SeqSum(Tail(q))

(***************************************************************************)
(* f32 arithmetic                                                          *)
(*                                                                         *)
(* An f32 is held as its 32 bits read as an i32 (f32::to_bits() as i32):   *)
(* sign, 8 bits of exponent, 23 bits of fraction.  The operations round to *)
(* nearest, ties to even, as the hardware does, with subnormals,           *)
(* infinities and NaN; every NaN is the one quiet NaN.  Every intermediate *)
(* value stays below 2^31.                                                 *)
(***************************************************************************)
P23 == 2^23
P24 == 2^24
P30 == 2^30

\* f32::INFINITY and f32::NAN
F32Inf == 255 * P23
F32NaN == 255 * P23 + 2^22

\* the bits without the sign, the sign, and the two put together
F32Mag(x) == IF x >= 0 THEN x ELSE (x + P30) + P30
F32Sign(x) == IF x < 0 THEN 1 ELSE 0
F32Pack(s, m) == IF s = 0 THEN m ELSE (m - P30) - P30
F32IsNaN(x) == F32Mag(x) > F32Inf

\* the number of bits of m, 0 <= m < 2^31
BitLen4(m) == IF m < 4 THEN (IF m < 2 THEN m ELSE 2) ELSE IF m < 8 THEN 3 ELSE 4
BitLen8(m) == BitLen4(IF m < 16 THEN m ELSE m \div 16) + (IF m < 16 THEN 0 ELSE 4)
BitLen16(m) == BitLen8(IF m < 256 THEN m ELSE m \div 256) + (IF m < 256 THEN 0 ELSE 8)
BitLen(m) == BitLen16(IF m < 65536 THEN m ELSE m \div 65536) + (IF m < 65536 THEN 0 ELSE 16)

\* m with its lowest bit set if sticky
Jam(m, sticky) == IF sticky /\ m % 2 = 0 THEN m + 1 ELSE m

\* the f32 nearest to (-1)^s * m * 2^E, 0 < m < 2^31, ties to even; bit 0
\* of m may stand for any bits below it.  Q is the exponent of the last
\* place of the result, for an m of n bits, and q the result in units of it
RoundExp(E, n) == IF E + n - 24 > -149 THEN E + n - 24 ELSE -149
RoundShift(m, sh) ==
    IF sh <= 0 THEN m * 2^(-sh)
    ELSE IF sh >= 31 THEN (IF sh = 31 /\ m > P30 THEN 1 ELSE 0)
    ELSE IF m % 2^sh > 2^(sh - 1)
            \/ (m % 2^sh = 2^(sh - 1) /\ (m \div 2^sh) % 2 = 1)
         THEN (m \div 2^sh) + 1 ELSE m \div 2^sh
RoundPack(s, Q, q) ==
    F32Pack(s, IF Q + 149 + (q \div P23) >= 255 THEN F32Inf
               ELSE (Q + 149) * P23 + q)
RoundTo(s, E, m, Q) == RoundPack(s, Q, RoundShift(m, Q - E))
F32Round(s, E, m) == RoundTo(s, E, m, RoundExp(E, BitLen(m)))

\* a finite x other than 0 is m * 2^E with m = F32Mant(x) < 2^24 and
\* E = F32Exp(x); MantOf and ExpOf take the bits without the sign
MantOf(g) == IF g < P23 THEN g ELSE (g % P23) + P23
ExpOf(g) == IF g < P23 THEN -149 ELSE (g \div P23) - 150
F32Mant(x) == MantOf(F32Mag(x))
F32Exp(x) == ExpOf(F32Mag(x))
\* the places to shift the mantissa up to have it in 2^23 .. 2^24 - 1
NormShift(g) == IF g >= P23 THEN 0 ELSE 24 - BitLen(g)

\* -x
F32Neg(x) == F32Pack(1 - F32Sign(x), F32Mag(x))

\* a + b is x + y with x the one of the larger magnitude gx: X and Y are
\* the mantissas in units of 2^E, Y with the bits shifted out jammed
AddAligned(sx, sy, E, X, Y) ==
    IF sx # sy /\ X = Y THEN 0
    ELSE F32Round(sx, E, IF sx = sy THEN X + Y ELSE X - Y)
AddShift(Y, d) == IF d >= 31 THEN 1 ELSE Jam(Y \div 2^d, Y % 2^d # 0)
AddMags(x, y, gx, gy) ==
    IF gx > F32Inf THEN F32NaN
    ELSE IF gx = F32Inf THEN (IF gy = F32Inf /\ x # y THEN F32NaN ELSE x)
    ELSE IF gy = 0 THEN (IF gx = 0 /\ x # y THEN 0 ELSE x)
    ELSE AddAligned(F32Sign(x), F32Sign(y), ExpOf(gx) - 6, MantOf(gx) * 64,
                    AddShift(MantOf(gy) * 64, ExpOf(gx) - ExpOf(gy)))
AddOrdered(x, y) == AddMags(x, y, F32Mag(x), F32Mag(y))
F32Add(a, b) == AddOrdered(IF F32Mag(a) >= F32Mag(b) THEN a ELSE b,
                           IF F32Mag(a) >= F32Mag(b) THEN b ELSE a)

\* a - b
F32Sub(a, b) == IF F32IsNaN(b) THEN F32NaN ELSE F32Add(a, F32Neg(b))

\* a * b: the 48 bits of the product of the mantissas m1 and m2, taken in
\* halves of 12 bits, are H * 2^24 + L; the bits of L under bit 18 are jammed
MulJam(H, L) == Jam(H * 64 + (L \div 2^18), L % 2^18 # 0)
MulSum(high, mid, low) ==
    MulJam(high + (mid \div 4096) + (((mid % 4096) * 4096 + low) \div P24),
           ((mid % 4096) * 4096 + low) % P24)
MulHalves(a1, a0, b1, b0) == MulSum(a1 * b1, a1 * b0 + a0 * b1, a0 * b0)
MulMant(m1, m2) == MulHalves(m1 \div 4096, m1 % 4096, m2 \div 4096, m2 % 4096)
MulSign(a, b) == IF (a < 0) = (b < 0) THEN 0 ELSE 1
MulNorm(s, ga, na, gb, nb) ==
    F32Round(s, (ExpOf(ga) - na) + (ExpOf(gb) - nb) + 18,
             MulMant(MantOf(ga) * 2^na, MantOf(gb) * 2^nb))
MulMags(s, ga, gb) ==
    IF ga > F32Inf \/ gb > F32Inf THEN F32NaN
    ELSE IF ga = F32Inf \/ gb = F32Inf
    THEN (IF ga = 0 \/ gb = 0 THEN F32NaN ELSE F32Pack(s, F32Inf))
    ELSE IF ga = 0 \/ gb = 0 THEN F32Pack(s, 0)
    ELSE MulNorm(s, ga, NormShift(ga), gb, NormShift(gb))
F32Mul(a, b) == MulMags(MulSign(a, b), F32Mag(a), F32Mag(b))

\* a / b: long division of the mantissas, seven bits at a time
DivSteps(n, q, r, m2) ==
    LET step[k \in 0..n, qk \in Nat, rk \in Nat] ==
            IF k = 0 THEN Jam(qk, rk # 0)
            ELSE step[k - 1, qk * 128 + ((rk * 128) \div m2), (rk * 128) % m2]
    IN step[n, q, r]
DivNorm(s, ga, na, gb, nb) ==
    F32Round(s, (ExpOf(ga) - na) - (ExpOf(gb) - nb) - 28,
             DivSteps(4, (MantOf(ga) * 2^na) \div (MantOf(gb) * 2^nb),
                      (MantOf(ga) * 2^na) % (MantOf(gb) * 2^nb), MantOf(gb) * 2^nb))
DivMags(s, ga, gb) ==
    IF ga > F32Inf \/ gb > F32Inf THEN F32NaN
    ELSE IF (ga = F32Inf /\ gb = F32Inf) \/ (ga = 0 /\ gb = 0) THEN F32NaN
    ELSE IF ga = F32Inf \/ gb = 0 THEN F32Pack(s, F32Inf)
    ELSE IF gb = F32Inf \/ ga = 0 THEN F32Pack(s, 0)
    ELSE DivNorm(s, ga, NormShift(ga), gb, NormShift(gb))
F32Div(a, b) == DivMags(MulSign(a, b), F32Mag(a), F32Mag(b))

\* a.sqrt(): the square root of m * 2^28 digit by digit, m below 2^26 taken
\* two bits at a time from pair i down, then 14 pairs of zeros; s is the
\* root and the remainder so far, and SqrtStep takes the pair d
SqrtStep(s, d) ==
    IF s[2] * 4 + d >= 4 * s[1] + 1
    THEN <<2 * s[1] + 1, (s[2] * 4 + d) - (4 * s[1] + 1)>>
    ELSE <<2 * s[1], s[2] * 4 + d>>
SqrtPair(m, k) == IF k >= 0 THEN (m \div 4^k) % 4 ELSE 0
SqrtSteps(i, m, r, rem) ==
    LET step[k \in -15..i, s \in Nat \X Nat] ==
            IF k < -14 THEN Jam(s[1], s[2] # 0)
            ELSE step[k - 3, SqrtStep(SqrtStep(SqrtStep(s, SqrtPair(m, k)),
                                               SqrtPair(m, k - 1)),
                                      SqrtPair(m, k - 2))]
    IN step[i, <<r, rem>>]
SqrtRound(m, E) ==
    F32Round(0, ((E - (E % 2)) \div 2) - 14,
             SqrtSteps(12, IF E % 2 # 0 THEN 2 * m ELSE m, 0, 0))
SqrtNorm(g, n) == SqrtRound(MantOf(g) * 2^n, ExpOf(g) - n)
F32Sqrt(a) ==
    IF F32Mag(a) > F32Inf THEN F32NaN
    ELSE IF F32Mag(a) = 0 \/ a = F32Inf THEN a
    ELSE IF a < 0 THEN F32NaN
    ELSE SqrtNorm(a, NormShift(a))

\* i as f32, for an i32 other than i32::MIN
F32FromInt(i) == IF i = 0 THEN 0
                 ELSE F32Round(IF i < 0 THEN 1 ELSE 0, 0, IF i < 0 THEN -i ELSE i)

\* x as i32: towards zero, NaN to 0, saturating; ToIntMag is -1 for a
\* magnitude of 2^31 or more
Truncated(m, E) == IF E >= 0 THEN m * 2^E
                   ELSE IF -E >= 31 THEN 0 ELSE m \div 2^(-E)
ToIntMag(g) ==
    IF g = F32Inf \/ (ExpOf(g) >= 0 /\ BitLen(MantOf(g)) + ExpOf(g) > 31)
    THEN -1 ELSE Truncated(MantOf(g), ExpOf(g))
ToIntSigned(x, v) ==
    IF v < 0 THEN (IF x > 0 THEN P30 - 1 + P30 ELSE (0 - P30) - P30)
    ELSE IF x > 0 THEN v ELSE -v
F32ToInt(x) ==
    IF F32Mag(x) > F32Inf \/ F32Mag(x) = 0 THEN 0
    ELSE ToIntSigned(x, ToIntMag(F32Mag(x)))

\* a < b
F32Key(x) == IF x >= 0 THEN x ELSE (-(x + P30)) - P30
F32Lt(a, b) == ~F32IsNaN(a) /\ ~F32IsNaN(b) /\ F32Key(a) < F32Key(b)

\* f32::min, f32::max, f32::clamp, f32::abs
F32Min(a, b) == IF F32IsNaN(a) \/ (~F32IsNaN(b) /\ F32Key(b) <= F32Key(a)) THEN b ELSE a
F32Max(a, b) == IF F32IsNaN(a) \/ (~F32IsNaN(b) /\ F32Key(b) >= F32Key(a)) THEN b ELSE a
F32Clamp(x, lo, hi) == IF F32Lt(x, lo) THEN lo ELSE IF F32Lt(hi, x) THEN hi ELSE x
F32Abs(x) == F32Mag(x)

(***************************************************************************)
(* The block encoder                                                       *)
(*                                                                         *)
(* The block, the endpoints ep, the statistics and the errors are f32;     *)
(* qep, the indices and the part lists are integers.  A u32 of texel flags *)
(* (mask, pattern, qblock) is a sequence of bits, lowest first.  Every sum *)
(* is formed in the order the code forms it.  channels is 3 or 4 in every  *)
(* preset of BC7Settings, and any u32 in a bundle built by hand: with more *)
(* than 4 the code indexes its arrays of four past their end and panics,   *)
(* and the empty sequence <<>> stands for the result of a function that    *)
(* panics.                                                                 *)
(***************************************************************************)
\* the one element of S: The({e : v \in {x}}) is e with v bound to the value
\* of x, x being evaluated first
The(S) == CHOOSE y \in S : TRUE

\* 0.5, 1.0, 2.0, 255.0 and 0.001
F32Half == 126 * P23
F32One == 127 * P23
F32Two == 128 * P23
F32Byte == 134 * P23 + 127 * 2^16
F32Milli == 117 * P23 + 201327

\* "as i32" of the quotient a / b, b > 0: towards zero
TruncDiv(a, b) == IF a >= 0 THEN a \div b ELSE -((-a) \div b)

Clamp(v, lo, hi) == IF v < lo THEN lo ELSE IF v > hi THEN hi ELSE v

\* f32::INFINITY, the best_err of a new BlockCompressorBC7
INFINITY == F32Inf

\* sq(x)
sq(x) == F32Mul(x, x)

\* acc += s[i]; acc += s[i + 1]; ... to the end of s
F32SumFrom(acc, s, i) ==
    LET sum[k \in 1..(Len(s) + 1), a \in Int] ==
            IF k > Len(s) THEN a ELSE sum[k + 1, F32Add(a, s[k])]
    IN sum[i, acc]

\* let mut acc = 0.0; for v in s { acc += v }
F32Sum(s) == The({F32SumFrom(0, t, 1) : t \in {Word(s)}})

\* BlockCompressorBC7::load_block_interleaved_rgba: block[k + 16 p] (here
\* from 1) is channel p of texel k = 4 y + x, as f32; an offset past the end
\* of rgba panics, which the empty block stands for
load_block_interleaved_rgba(rgba, xx, yy, stride) ==
    LET offset(k) == (yy * 4 + (k \div 4)) * stride + (xx * 4 + (k % 4)) * 4
    IN IF \E k \in 0..15 : offset(k) + 3 >= Len(rgba) THEN <<>>
       ELSE Word([i \in 1..64 |->
                F32FromInt(rgba[offset((i - 1) % 16) + ((i - 1) \div 16) + 1])])

\* the block load_block_interleaved_rgba leaves behind when it panics: the
\* texels before the first one whose pixel is past the end of rgba are
\* loaded, the others are as they were
load_block_until_panic(blk, rgba, xx, yy, stride) ==
    LET offset(k) == (yy * 4 + (k \div 4)) * stride + (xx * 4 + (k % 4)) * 4
        past(k) == offset(k) + 3 >= Len(rgba)
        first == CHOOSE k \in 0..15 : past(k) /\ \A j \in 0..(k - 1) : ~past(j)
    IN Word([i \in 1..64 |->
             IF (i - 1) % 16 < first
             THEN F32FromInt(rgba[offset((i - 1) % 16) + ((i - 1) \div 16) + 1])
             ELSE blk[i]])

\* compute_opaque_err
compute_opaque_err(blk, channels) ==
    IF channels = 3 THEN 0
    ELSE F32Sum([k \in 1..16 |-> sq(F32Sub(blk[48 + k], F32Byte))])

\* unpack_to_byte(v, bits)
unpack_to_byte(v, bits) ==
    LET vv == v * Pow2(8 - bits)
    IN vv + (vv \div Pow2(bits))

\* 0xFFFFFFFF
AllTexels == Ones(32)

\* the two channels whose product goes into stats[i] and covar[i], i < 10,
\* which is also the place of covar[i] in the symmetric matrix
StatPair ==
    << <<0, 0>>, <<0, 1>>, <<0, 2>>, <<0, 3>>, <<1, 1>>, <<1, 2>>, <<1, 3>>,
       <<2, 2>>, <<2, 3>>, <<3, 3>> >>

\* compute_stats_masked from rgba on: rgba[k + 16 p] is block[k + 16 p] *
\* flag for p < channels and 0.0 above; stats[i] (here from 1) starts at 0.0
\* and gets one term per texel
StatsOf(rgba, mask, channels) ==
    Word([n \in 1..15 |->
        IF channels # 4 /\ (n - 1) \in {3, 6, 8, 9, 13} THEN 0
        ELSE F32Sum([k \in 1..16 |->
                 IF n = 15 THEN F32FromInt(mask[k])
                 ELSE IF n > 10 THEN rgba[k + 16 * (n - 11)]
                 ELSE F32Mul(rgba[k + 16 * StatPair[n][1]],
                             rgba[k + 16 * StatPair[n][2]])])])

\* compute_stats_masked(stats, block, mask, channels) on stats = [0.0; 15];
\* with more than 4 channels block[k + 4 * 16] and rgba[4] are past the end
\* for the first texel, and the function panics
compute_stats_masked(blk, mask, channels) ==
    IF channels > 4 THEN <<>>
    ELSE The({StatsOf(rgba, mask, channels) :
              rgba \in {Word([i \in 1..64 |->
                          IF (i - 1) \div 16 < channels
                          THEN F32Mul(blk[i],
                                      F32FromInt(mask[((i - 1) % 16) + 1]))
                          ELSE 0])}})

\* covar_from_stats(covar, stats, channels) on covar = [0.0; 10]
covar_from_stats(stats, channels) ==
    Word([n \in 1..10 |->
        IF channels # 4 /\ (n - 1) \in {3, 6, 8, 9} THEN 0
        ELSE F32Sub(stats[n],
                    F32Div(F32Mul(stats[11 + StatPair[n][1]],
                                  stats[11 + StatPair[n][2]]),
                           stats[15]))])

\* compute_covar_dc_masked(covar, dc, block, mask, channels) on arrays of
\* 0.0; it panics where compute_stats_masked does
compute_covar_dc_masked(blk, mask, channels) ==
    IF channels > 4 THEN <<>>
    ELSE The({[covar |-> covar_from_stats(stats, channels),
               dc |-> Word([p \in 1..4 |->
                         IF p <= channels THEN F32Div(stats[10 + p], stats[15])
                         ELSE 0])] :
              stats \in {compute_stats_masked(blk, mask, channels)}})

\* covar[i] for row r and column c of the symmetric matrix (all from 0)
SymIndex == << <<0, 1, 2, 3>>, <<1, 4, 5, 6>>, <<2, 5, 7, 8>>, <<3, 6, 8, 9>> >>

\* ssymv3(a, covar, b) and ssymv4(a, covar, b): the a they leave
ssymv(n, a, covar, b) ==
    Word([r \in 1..4 |->
        IF r > n THEN a[r]
        ELSE The({F32SumFrom(t[1], t, 2) :
                  t \in {Word([c \in 1..n |->
                            F32Mul(covar[SymIndex[r][c] + 1], b[c])])}})])
ssymv3(a, covar, b) == ssymv(3, a, covar, b)
ssymv4(a, covar, b) == ssymv(4, a, covar, b)

\* a_vec after iteration i of compute_axis, axis being what ssymv3 or
\* ssymv4 has just left: the first channels entries of axis, divided by
\* the norm of axis when i is odd
AxisStep(i, axis, a_vec, channels) ==
    The({Word([p \in 1..4 |-> IF p > channels THEN a_vec[p]
                              ELSE IF i % 2 = 1 THEN F32Mul(axis[p], rnorm)
                              ELSE axis[p]]) :
         rnorm \in {IF i % 2 = 1
                    THEN F32Div(F32One,
                                F32Sqrt(F32Sum([p \in 1..channels |->
                                                   sq(axis[p])])))
                    ELSE F32One}})

\* iteration i of the loop of compute_axis: <<axis, a_vec>> at its end;
\* axis is multiplied by ssymv3 for 3 channels, by ssymv4 for 4, and left
\* as it is for any other number
AxisIteration(i, axis, a_vec, covar, channels) ==
    The({<<m, AxisStep(i, m, a_vec, channels)>> :
         m \in {IF channels = 3 THEN ssymv3(axis, covar, a_vec)
                ELSE IF channels = 4 THEN ssymv4(axis, covar, a_vec)
                ELSE axis}})

\* the loop of compute_axis from iteration i on: [axis, a_vec] at its end
PowerIterations(i, power_iterations, axis, a_vec, covar, channels) ==
    LET from[k \in 0..power_iterations, v \in Seq(Seq(Int))] ==
            IF k >= power_iterations THEN [axis |-> v[1], a_vec |-> v[2]]
            ELSE from[k + 1, AxisIteration(k, v[1], v[2], covar, channels)]
    IN from[i, <<axis, a_vec>>]

\* compute_axis(axis, covar, power_iterations, channels): the axis it
\* leaves; with more than 4 channels the slices a_vec[..channels] and
\* axis[..channels] are past the end of the arrays, and the function panics
compute_axis(axis, covar, power_iterations, channels) ==
    IF channels > 4 THEN <<>>
    ELSE The({Word([p \in 1..4 |->
                   IF p <= channels THEN r.a_vec[p] ELSE r.axis[p]]) :
              r \in {PowerIterations(0, power_iterations, axis,
                                     <<F32One, F32One, F32One, F32One>>,
                                     covar, channels)}})

\* 1.0 / (256.0 * 256.0) and sq(0.001)
INV_VAR == F32Div(F32One, F32Mul(F32FromInt(256), F32FromInt(256)))
EPS == sq(F32Milli)

\* covar scaled by INV_VAR with EPS added to the entries in diagonal
ScaledCovar(covar, diagonal) ==
    Word([n \in 1..10 |->
        IF (n - 1) \in diagonal THEN F32Add(F32Mul(covar[n], INV_VAR), EPS)
        ELSE F32Mul(covar[n], INV_VAR)])

\* block_pca_axis(axis, dc, block, mask, channels) on arrays of 0.0; it
\* panics where compute_covar_dc_masked does
block_pca_axis(blk, mask, channels) ==
    IF channels > 4 THEN <<>>
    ELSE The({The({[axis |-> compute_axis(<<0, 0, 0, 0>>, covar, 8, channels),
                    dc |-> cd.dc] :
                   covar \in {ScaledCovar(cd.covar, {0, 4, 7, 9})}}) :
              cd \in {compute_covar_dc_masked(blk, mask, channels)}})

\* the bound of get_pca_bound: the trace of covar less the norm of a_vec,
\* 0.0 at least
PcaBound(covar, a_vec, channels) ==
    F32Max(F32Sub(IF channels = 4
                  THEN F32Add(F32Add(F32Add(covar[1], covar[5]), covar[8]),
                              covar[10])
                  ELSE F32Add(F32Add(covar[1], covar[5]), covar[8]),
                  F32Sqrt(F32Sum([p \in 1..channels |-> sq(a_vec[p])]))),
           0)

\* get_pca_bound(covar, channels): a_vec is the product of ssymv3 for 3
\* channels, of ssymv4 for 4, and stays [0.0; 4] for any other number; the
\* function panics where compute_axis does
get_pca_bound(covar, channels) ==
    IF channels > 4 THEN <<>>
    ELSE The({The({The({PcaBound(cs, a_vec, channels) :
                        a_vec \in {IF channels = 3
                                   THEN ssymv3(<<0, 0, 0, 0>>, cs, axis)
                                   ELSE IF channels = 4
                                   THEN ssymv4(<<0, 0, 0, 0>>, cs, axis)
                                   ELSE <<0, 0, 0, 0>>}}) :
                   axis \in {compute_axis(<<0, 0, 0, 0>>, cs, 4, channels)}}) :
              cs \in {ScaledCovar(covar, {0, 4, 7})}})

\* block_pca_bound_split(block, mask, full_stats, channels); it panics
\* where compute_stats_masked does
block_pca_bound_split(blk, mask, full_stats, channels) ==
    IF channels > 4 THEN <<>>
    ELSE
    The({The({The({F32Mul(F32Sqrt(F32Add(F32Add(0, bound1), bound2)),
                          F32FromInt(256)) :
                   bound2 \in {get_pca_bound(
                                   covar_from_stats(
                                       Word([n \in 1..15 |->
                                                F32Sub(full_stats[n], stats[n])]),
                                       channels),
                                   channels)}}) :
              bound1 \in {get_pca_bound(covar_from_stats(stats, channels),
                                        channels)}}) :
         stats \in {compute_stats_masked(blk, mask, channels)}})

\* ext after the texels from k on (from 1) of the min/max loop of
\* block_segment_core, dots[k] being the dot product of texel k
Extents(ext, dots, mask, k) ==
    LET from[i \in 1..17, e \in Seq(Int)] ==
            IF i > 16 THEN e
            ELSE IF mask[i] = 0 THEN from[i + 1, e]
            ELSE from[i + 1, <<F32Min(e[1], dots[i]), F32Max(e[2], dots[i])>>]
    IN from[k, ext]

\* ext moved apart by 0.5 each way when its two ends are less than 1.0 apart
ExtentsApart(ext) ==
    IF F32Lt(F32Sub(ext[2], ext[1]), F32One)
    THEN <<F32Sub(ext[1], F32Half), F32Add(ext[2], F32Half)>>
    ELSE ext

\* block_segment_core(ep, block, mask, channels) on ep = [0.0; 8]: the eight
\* ep of one pair; it panics where block_pca_axis does
block_segment_core(blk, mask, channels) ==
    IF channels > 4 THEN <<>>
    ELSE
    The({The({The({Word([i \in 1..8 |->
                       IF ((i - 1) % 4) + 1 > channels THEN 0
                       ELSE F32Add(F32Mul(ext[((i - 1) \div 4) + 1],
                                          pca.axis[((i - 1) % 4) + 1]),
                                   pca.dc[((i - 1) % 4) + 1])]) :
                   ext \in {ExtentsApart(
                                Extents(<<F32Inf, F32Neg(F32Inf)>>, dots, mask, 1))}}) :
              dots \in {Word([k \in 1..16 |->
                           IF mask[k] = 0 THEN 0
                           ELSE F32Sum([p \in 1..channels |->
                                   F32Mul(pca.axis[p],
                                          F32Sub(blk[16 * (p - 1) + k],
                                                 pca.dc[p]))])])}}) :
         pca \in {block_pca_axis(blk, mask, channels)}})

\* BlockCompressorBC7::block_segment(ep, block, mask, channels) on
\* ep = [0.0; 8]
block_segment(blk, mask, channels) ==
    IF channels > 4 THEN <<>>
    ELSE The({Word([i \in 1..8 |->
                   IF ((i - 1) % 4) + 1 > channels THEN ep[i]
                   ELSE F32Clamp(ep[i], 0, F32Byte)]) :
              ep \in {block_segment_core(blk, mask, channels)}})

\* ((ep / 255.0 * levels2 - b) / 2.0 + 0.5) as i32 * 2 + b, clamped to
\* b ..= levels2 - 1 + b: the qep_b of ep_quant0367 and of ep_quant1
QuantPBit(ep, levels2, b) ==
    Clamp(F32ToInt(
              F32Add(F32Div(F32Sub(F32Mul(F32Div(ep, F32Byte),
                                          F32FromInt(levels2)),
                                   F32FromInt(b)),
                            F32Two),
                     F32Half)) * 2 + b,
          b, levels2 - 1 + b)

\* levels2 of ep_quant0367
Levels2(mode) == Pow2(IF mode = 0 THEN 4 ELSE IF mode = 7 THEN 5 ELSE 7) * 2 - 1

\* err0 (b = 0) or err1 (b = 1) of ep_quant0367 for endpoint i, qb being the
\* four qep_b of that b: ep_b is qep_b as f32, unpacked from 5 bits in mode 0
QuantErr0367(ep, i, qb, mode, channels) ==
    F32Sum([p \in 1..channels |->
        sq(F32Sub(ep[i * 4 + p],
                  F32FromInt(IF mode = 0 THEN unpack_to_byte(qb[p], 5)
                             ELSE qb[p])))])

\* the four qep of endpoint i of ep_quant0367: qep_b[1] is the qep_b of
\* b = 0 and qep_b[2] that of b = 1
Endpoint0367(ep, i, mode, channels) ==
    The({The({IF F32Lt(err[1], err[2]) THEN qep_b[1] ELSE qep_b[2] :
              err \in {Word([b \in 1..2 |->
                          QuantErr0367(ep, i, qep_b[b], mode, channels)])}}) :
         qep_b \in {Word([b \in 1..2 |->
                       Word([p \in 1..4 |->
                           QuantPBit(ep[i * 4 + p], Levels2(mode), b - 1)])])}})

\* ep_quant0367(qep, ep, mode, channels): the eight qep of one pair
ep_quant0367(ep, mode, channels) ==
    The({e[1] \o e[2] :
         e \in {Word([i \in 1..2 |-> Endpoint0367(ep, i - 1, mode, channels)])}})

\* err0 (b = 0) or err1 (b = 1) of ep_quant1, qb being the eight qep_b of
\* that b
QuantErr1(ep, qb) ==
    F32Sum([n \in 1..6 |->
        sq(F32Sub(ep[((n - 1) \div 3) * 4 + ((n - 1) % 3) + 1],
                  F32FromInt(unpack_to_byte(
                      qb[((n - 1) \div 3) * 4 + ((n - 1) % 3) + 1], 7))))])

\* ep_quant1(qep, ep): the eight qep of one pair
ep_quant1(ep) ==
    The({The({IF F32Lt(err[1], err[2]) THEN qep_b[1] ELSE qep_b[2] :
              err \in {Word([b \in 1..2 |-> QuantErr1(ep, qep_b[b])])}}) :
         qep_b \in {Word([b \in 1..2 |->
                       Word([i \in 1..8 |-> QuantPBit(ep[i], 127, b - 1)])])}})

\* (v / 255.0 * (levels - 1) + 0.5) as i32, clamped to 0 ..= levels - 1: the
\* qep of ep_quant245 and of channel_quant_dequant
QuantLevel(v, levels) ==
    Clamp(F32ToInt(F32Add(F32Mul(F32Div(v, F32Byte), F32FromInt(levels - 1)),
                          F32Half)),
          0, levels - 1)

\* ep_quant245(qep, ep, mode): the eight qep of one pair
ep_quant245(ep, mode) ==
    Word([i \in 1..8 |-> QuantLevel(ep[i], Pow2(IF mode = 5 THEN 7 ELSE 5))])

\* PAIRS_TABLE of ep_quant and ep_dequant
PAIRS_TABLE == <<3, 2, 3, 2, 1, 1, 1, 2>>

\* what ep_quant calls for one pair of endpoints
QuantPair(pair, mode, channels) ==
    IF mode \in {0, 3, 6, 7} THEN ep_quant0367(pair, mode, channels)
    ELSE IF mode = 1 THEN ep_quant1(pair)
    ELSE ep_quant245(pair, mode)

\* ep_quant(qep, ep, mode, channels) on qep = [0; n], n the length of ep
ep_quant(ep, mode, channels) ==
    The({Word([i \in 1..Len(ep) |->
              IF i <= 8 * Len(q) THEN q[((i - 1) \div 8) + 1][((i - 1) % 8) + 1]
              ELSE 0]) :
         q \in {Word([i \in 1..PAIRS_TABLE[mode + 1] |->
                   QuantPair(SubSeq(ep, 8 * i - 7, 8 * i), mode, channels)])}})

\* ep_dequant(ep, qep, mode): the ep it leaves
ep_dequant(ep, qep, mode) ==
    Word([i \in 1..Len(ep) |->
        IF i > 8 * PAIRS_TABLE[mode + 1] THEN ep[i]
        ELSE F32FromInt(
                 IF mode = 3 \/ mode = 6 THEN qep[i]
                 ELSE unpack_to_byte(qep[i],
                                     IF mode = 1 \/ mode = 5 THEN 7
                                     ELSE IF mode = 7 THEN 6 ELSE 5))])

\* ep_quant_dequant(qep, ep, mode, channels): the qep and the ep it leaves
ep_quant_dequant(ep, mode, channels) ==
    The({[qep |-> qep, ep |-> ep_dequant(ep, qep, mode)] :
         qep \in {ep_quant(ep, mode, channels)}})

\* get_unquant_value(bits, index)
get_unquant_value(bits, index) == Weights(bits)[index + 1]

\* (((64 - w) * ep_a as i32 + w * ep_b as i32 + 32) / 64) as f32
DecodedValue(w, ep_a, ep_b) ==
    F32FromInt(TruncDiv((64 - w) * F32ToInt(ep_a) + w * F32ToInt(ep_b) + 32, 64))

\* ((proj / div) * levels + 0.5) as i32, clamped to 1 ..= levels - 1: the
\* q1_clamped of block_quant and of channel_opt_quant
ProjectedIndex(proj, div, bits) ==
    Clamp(F32ToInt(F32Add(F32Mul(F32Div(proj, div), F32FromInt(Pow2(bits))),
                          F32Half)),
          1, Pow2(bits) - 1)

\* err0 or err1 of block_quant for texel k (0-based) and the weight w
TexelErr(blk, ep, channels, k, w) ==
    F32Sum([p \in 1..channels |->
        sq(F32Sub(DecodedValue(w, ep[p], ep[4 + p]), blk[k + 1 + (p - 1) * 16]))])

\* block_quant for texel k (0-based), ep being the eight ep of the pair the
\* pattern gives the texel, up to the two candidate indices q1_clamped - 1
\* and q1_clamped and their squared errors
block_quant_candidates(blk, bits, ep, channels, k) ==
    The({The({[q1_clamped |-> q1_clamped, err0 |-> err[1], err1 |-> err[2]] :
              err \in {Word([n \in 1..2 |->
                          TexelErr(blk, ep, channels, k,
                                   get_unquant_value(bits, q1_clamped - 2 + n))])}}) :
         q1_clamped \in
             {ProjectedIndex(
                  F32Sum([p \in 1..channels |->
                      F32Mul(F32Sub(blk[k + 1 + (p - 1) * 16], ep[p]),
                             F32Sub(ep[4 + p], ep[p]))]),
                  F32Sum([p \in 1..channels |-> sq(F32Sub(ep[4 + p], ep[p]))]),
                  bits)}})

\* an index assignment that takes the lower candidate when the two tie
block_quant_texel_low(blk, bits, ep, channels, k) ==
    The({IF ~F32Lt(c.err1, c.err0)
         THEN [q |-> c.q1_clamped - 1, err |-> c.err0]
         ELSE [q |-> c.q1_clamped, err |-> c.err1] :
         c \in {block_quant_candidates(blk, bits, ep, channels, k)}})

\* block_quant for texel k (0-based): the index it assigns and the error it
\* adds; best_q starts as q1_clamped and becomes q1_clamped - 1 if
\* err0 < err1
block_quant_texel(blk, bits, ep, channels, k) ==
    The({IF F32Lt(c.err0, c.err1)
         THEN [q |-> c.q1_clamped - 1, err |-> c.err0]
         ELSE [q |-> c.q1_clamped, err |-> c.err1] :
         c \in {block_quant_candidates(blk, bits, ep, channels, k)}})

\* the eight ep of the pair j the pattern gives texel k (from 1)
PatternPair(ep, pattern, k) ==
    SubSeq(ep, 8 * (pattern[2 * k - 1] + 2 * pattern[2 * k]) + 1,
               8 * (pattern[2 * k - 1] + 2 * pattern[2 * k]) + 8)

\* block_quant(qblock, block, bits, ep, pattern, channels): the qblock and
\* the total error
block_quant(blk, bits, ep, pattern, channels) ==
    The({[qblock |-> QBlock([k \in 1..16 |-> t[k].q]),
          err |-> F32Sum([k \in 1..16 |-> t[k].err])] :
         t \in {Word([k \in 1..16 |->
                   The({block_quant_texel(blk, bits, pair, channels, k - 1) :
                        pair \in {PatternPair(ep, pattern, k)}})])}})

\* err0 or err1 of channel_opt_quant for the value v and the weight w
ChannelErr(v, ep, w) ==
    F32Add(0, sq(F32Sub(DecodedValue(w, ep[1], ep[2]), v)))

\* channel_opt_quant for texel k (0-based), up to the two candidate indices
\* and their squared errors; ep holds the two endpoints of the channel
channel_opt_quant_candidates(channel_block, bits, ep, k) ==
    The({The({[q1_clamped |-> q1_clamped, err0 |-> err[1], err1 |-> err[2]] :
              err \in {Word([n \in 1..2 |->
                          ChannelErr(channel_block[k + 1], ep,
                                     get_unquant_value(bits, q1_clamped - 2 + n))])}}) :
         q1_clamped \in
             {ProjectedIndex(F32Sub(channel_block[k + 1], ep[1]),
                             F32Add(F32Sub(ep[2], ep[1]), F32Milli),
                             bits)}})

\* channel_opt_quant(qblock, channel_block, bits, ep): the qblock and the
\* total error; best_q is q1_clamped - 1 if err0 < err1 and q1_clamped
\* otherwise
channel_opt_quant(channel_block, bits, ep) ==
    The({[qblock |-> QBlock([k \in 1..16 |-> t[k].q]),
          err |-> F32Sum([k \in 1..16 |-> t[k].err])] :
         t \in {Word([k \in 1..16 |->
                   The({IF F32Lt(c.err0, c.err1)
                        THEN [q |-> c.q1_clamped - 1, err |-> c.err0]
                        ELSE [q |-> c.q1_clamped, err |-> c.err1] :
                        c \in {channel_opt_quant_candidates(
                                   channel_block, bits, ep, k - 1)}})])}})

\* channel_quant_dequant(qep, ep, epbits): the qep and the ep it leaves
channel_quant_dequant(ep, epbits) ==
    The({[qep |-> qep,
          ep |-> Word([i \in 1..2 |->
                    F32FromInt(unpack_to_byte(qep[i], epbits))])] :
         qep \in {Word([i \in 1..2 |-> QuantLevel(ep[i], Pow2(epbits))])}})

\* the values of the texels from k on (from 1) that the mask keeps, in the
\* order of the texels, after those of kept
MaskedFrom(values, mask, k, kept) ==
    LET from[i \in 1..17, acc \in Seq(Int)] ==
            IF i > 16 THEN acc
            ELSE IF mask[i] = 1 THEN from[i + 1, Append(acc, values[i])]
            ELSE from[i + 1, acc]
    IN from[k, kept]

Masked(values, mask) == MaskedFrom(values, mask, 1, <<>>)

\* the least-squares endpoints of opt_endpoints and channel_opt_endpoints
\* for one channel: n texels, L = levels - 1, the sums of q and of q * q,
\* and the sum and the atb1 of the channel; [det, ep0, ep1] with det =
\* cxx * cyy - cxy * cxy
LeastSquares(n, L, sum_q, sum_qq, sum, atb1) ==
    The({The({The({[det |-> det,
                    ep0 |-> F32Mul(F32Sub(F32Mul(atb1, t.cyy),
                                          F32Mul(t.atb2, t.cxy)),
                                   scale),
                    ep1 |-> F32Mul(F32Sub(F32Mul(t.atb2, t.cxx),
                                          F32Mul(atb1, t.cxy)),
                                   scale)] :
                   scale \in {F32Div(L, det)}}) :
              det \in {F32Sub(F32Mul(t.cxx, t.cyy), F32Mul(t.cxy, t.cxy))}}) :
         t \in {[atb2 |-> F32Sub(F32Mul(L, sum), atb1),
                 cxx |-> F32Add(F32Sub(F32Mul(n, sq(L)),
                                       F32Mul(F32Mul(F32Two, L), sum_q)),
                                sum_qq),
                 cyy |-> sum_qq,
                 cxy |-> F32Sub(F32Mul(L, sum_q), sum_qq)]}})

\* levels - 1 as f32, for indices of that many bits
MaxLevel(bits) == F32FromInt(Pow2(bits) - 1)

\* channel_opt_endpoints(ep, channel_block, bits, qblock): the ep it leaves;
\* t holds sum_q, sum_qq, sum and atb1
channel_opt_endpoints(ep, channel_block, bits, qblock) ==
    The({The({The({IF F32Lt(F32Abs(ls.det), F32Milli)
                   THEN <<F32Div(t[3], F32FromInt(16)),
                          F32Div(t[3], F32FromInt(16))>>
                   ELSE <<F32Clamp(ls.ep0, 0, F32Byte),
                          F32Clamp(ls.ep1, 0, F32Byte)>> :
                   ls \in {LeastSquares(F32FromInt(16), MaxLevel(bits),
                                        t[1], t[2], t[3], t[4])}}) :
              t \in {<<F32Sum(q),
                       F32Sum([k \in 1..16 |-> F32Mul(q[k], q[k])]),
                       F32Sum([k \in 1..16 |-> channel_block[k]]),
                       F32Sum([k \in 1..16 |->
                           F32Mul(F32Sub(MaxLevel(bits), q[k]),
                                  channel_block[k])])>>}}) :
         q \in {Word([k \in 1..16 |-> F32FromInt(Nibble(qblock, k - 1))])}})

\* ep after the texels from k on (from 1) of the min/max loop of opt_channel
ChannelExtents(ep, channel_block, k) ==
    LET from[i \in 1..17, e \in Seq(Int)] ==
            IF i > 16 THEN e
            ELSE from[i + 1, <<F32Min(e[1], channel_block[i]),
                               F32Max(e[2], channel_block[i])>>]
    IN from[k, ep]

\* the quantized endpoints qd and the indices channel_opt_quant gives the
\* channel
ChannelQuantized(channel_block, bits, qd) ==
    The({[ep |-> qd.ep, qep |-> qd.qep, qblock |-> cq.qblock, err |-> cq.err] :
         cq \in {channel_opt_quant(channel_block, bits, qd.ep)}})

\* one round of opt_channel: channel_quant_dequant of ep, then
\* channel_opt_quant
ChannelRound(channel_block, bits, epbits, ep) ==
    The({ChannelQuantized(channel_block, bits, qd) :
         qd \in {channel_quant_dequant(ep, epbits)}})

RECURSIVE RefineChannel(_, _, _, _, _)
\* the refinement loop of opt_channel: n more rounds from r = [ep, qep,
\* qblock, err]
RefineChannel(n, channel_block, bits, epbits, r) ==
    IF n = 0 THEN r
    ELSE The({RefineChannel(n - 1, channel_block, bits, epbits, round) :
              round \in {The({ChannelRound(channel_block, bits, epbits, ep) :
                              ep \in {channel_opt_endpoints(
                                          r.ep, channel_block, bits, r.qblock)}})}})

\* opt_channel(qblock, qep, channel_block, bits, epbits): [ep, qep, qblock,
\* err], err being what it returns
opt_channel(st, channel_block, bits, epbits) ==
    The({The({RefineChannel(st.refine_iterations_channel,
                            channel_block, bits, epbits, r) :
              r \in {ChannelRound(channel_block, bits, epbits, ep)}}) :
         ep \in {ChannelExtents(<<F32Byte, 0>>, channel_block, 1)}})

\* the two ep opt_endpoints leaves for channel p: n is the number of texels
\* of the mask, q their indices as f32, L = levels - 1; t holds the sum and
\* the atb1 of the channel
ChannelEnds(blk, mask, L, q, n, sum_q, sum_qq, p) ==
    The({The({IF F32Lt(F32Abs(ls.det), F32Milli)
              THEN <<F32Div(t[1], n), F32Div(t[1], n)>>
              ELSE <<ls.ep0, ls.ep1>> :
              ls \in {LeastSquares(n, L, sum_q, sum_qq, t[1], t[2])}}) :
         t \in {<<F32Sum(Masked([k \in 1..16 |-> blk[k + 16 * (p - 1)]], mask)),
                  F32Sum(Masked([k \in 1..16 |->
                                    F32Mul(F32Sub(L, q[k]),
                                           blk[k + 16 * (p - 1)])],
                                mask))>>}})

\* opt_endpoints(ep, block, bits, qblock, mask, channels): the ep it leaves;
\* t holds n, sum_q and sum_qq
opt_endpoints(ep, blk, bits, qblock, mask, channels) ==
    The({The({The({Word([i \in 1..Len(ep) |->
                       IF i > 8 \/ ((i - 1) % 4) + 1 > channels THEN ep[i]
                       ELSE chans[((i - 1) % 4) + 1][((i - 1) \div 4) + 1]]) :
                   chans \in {Word([p \in 1..channels |->
                                 ChannelEnds(blk, mask, MaxLevel(bits), q,
                                             t[1], t[2], t[3], p)])}}) :
              t \in {<<F32Sum(Masked([k \in 1..16 |-> F32One], mask)),
                       F32Sum(Masked(q, mask)),
                       F32Sum(Masked([k \in 1..16 |-> F32Mul(q[k], q[k])],
                                     mask))>>}}) :
         q \in {Word([k \in 1..16 |-> F32FromInt(Nibble(qblock, k - 1))])}})

\* one step of the search: a call of bc7_enc_mode01237, of
\* bc7_enc_mode45_candidate or of bc7_enc_mode6, or the entry of
\* bc7_enc_mode45 ("enter45") or one of its two compare-and-code steps
\* ("keep45")
SearchCall(op, mode, part_count, rotation, swap) ==
    [op |-> op, mode |-> mode, part_count |-> part_count,
     rotation |-> rotation, swap |-> swap]

\* bc7_enc_mode02: the calls it makes
bc7_enc_mode02(st) ==
    <<SearchCall("mode01237", 0, 16, 0, 0)>>
    \o (IF st.skip_mode2 = 0
        THEN <<SearchCall("mode01237", 2, 64, 0, 0)>> ELSE <<>>)

\* partial_sort_list(list, length, partial_count) on a list of len entries
\* indexes past the end of the list: list[i] for some len <= i < length in
\* its first round, or list[k] for k = len < partial_count
partial_sort_panics(len, length, partial_count) ==
    partial_count > 0 /\ (length > len \/ partial_count > len)

\* the calls a function makes before it returns, and before it panics
Returns(calls) == [calls |-> calls, panicked |-> FALSE]
Panics(calls) == [calls |-> calls, panicked |-> TRUE]

\* the calls of a and then, unless a panics, those of b
AndThen(a, b) ==
    IF a.panicked THEN a
    ELSE [calls |-> a.calls \o b.calls, panicked |-> b.panicked]

\* partial_count of bc7_enc_mode13: u32::max of the two thresholds
PartialCount13(st) ==
    IF st.fast_skip_threshold_mode1 > st.fast_skip_threshold_mode3
    THEN st.fast_skip_threshold_mode1
    ELSE st.fast_skip_threshold_mode3

\* bc7_enc_mode13: the calls it makes, none when both thresholds are 0 and
\* none when partial_sort_list panics on its part_list of 64 entries
bc7_enc_mode13(st) ==
    IF st.fast_skip_threshold_mode1 = 0 /\ st.fast_skip_threshold_mode3 = 0
    THEN Returns(<<>>)
    ELSE IF partial_sort_panics(64, 64, PartialCount13(st))
    THEN Panics(<<>>)
    ELSE Returns(
             <<SearchCall("mode01237", 1, st.fast_skip_threshold_mode1, 0, 0),
               SearchCall("mode01237", 3, st.fast_skip_threshold_mode3, 0, 0)>>)

\* bc7_enc_mode7: the call it makes, none when the threshold is 0 and none
\* when compute_stats_masked panics on more than 4 channels or
\* partial_sort_list panics on its part_list of 64 entries
bc7_enc_mode7(st) ==
    IF st.fast_skip_threshold_mode7 = 0
    THEN Returns(<<>>)
    ELSE IF st.channels > 4
    THEN Panics(<<>>)
    ELSE IF partial_sort_panics(64, 64, st.fast_skip_threshold_mode7)
    THEN Panics(<<>>)
    ELSE Returns(
             <<SearchCall("mode01237", 7, st.fast_skip_threshold_mode7, 0, 0)>>)

\* the candidates of one mode in bc7_enc_mode45: for p in channel0..channels,
\* one candidate per swap value
RECURSIVE Mode45Candidates(_, _, _, _)
Mode45Candidates(mode, p, channels, swaps) ==
    IF p >= channels THEN <<>>
    ELSE [s \in 1..Len(swaps) |-> SearchCall("candidate", mode, 0, p, swaps[s])]
         \o Mode45Candidates(mode, p + 1, channels, swaps)

\* the steps of bc7_enc_mode45 with its loops started at channel0: the
\* candidate of a rotation above 3 reads block[k + rotation * 16] past the
\* end of the block and panics, which ends the first loop after the
\* candidates of the rotations up to 3
Mode45Steps(channel0, channels) ==
    IF channels > 4 /\ channel0 < channels
    THEN Panics(<<SearchCall("enter45", 4, 0, 0, 0)>>
                \o Mode45Candidates(4, channel0, 4, <<0, 1>>))
    ELSE Returns(<<SearchCall("enter45", 4, 0, 0, 0)>>
                 \o Mode45Candidates(4, channel0, channels, <<0, 1>>)
                 \o <<SearchCall("keep45", 4, 0, 0, 0)>>
                 \o Mode45Candidates(5, channel0, channels, <<0>>)
                 \o <<SearchCall("keep45", 5, 0, 0, 0)>>)

\* bc7_enc_mode45 with both loops started at 0 instead of mode45_channel0
bc7_enc_mode45_from0(st) == Mode45Steps(0, st.channels)

\* bc7_enc_mode45: the steps it makes, and whether it panics after them
bc7_enc_mode45(st) == Mode45Steps(st.mode45_channel0, st.channels)

\* compress_block_bc7_core: the steps it makes, in order, and whether it
\* panics after them instead of returning; bc7_enc_mode6 panics in
\* block_segment, before its search, on more than 4 channels
SearchCalls(st) ==
    AndThen(
        Returns(IF st.mode_selection[1] # 0 THEN bc7_enc_mode02(st) ELSE <<>>),
        AndThen(
            IF st.mode_selection[2] # 0
            THEN AndThen(bc7_enc_mode13(st), bc7_enc_mode7(st))
            ELSE Returns(<<>>),
            AndThen(
                IF st.mode_selection[3] # 0
                THEN bc7_enc_mode45(st) ELSE Returns(<<>>),
                IF st.mode_selection[4] = 0 THEN Returns(<<>>)
                ELSE IF st.channels > 4 THEN Panics(<<>>)
                ELSE Returns(<<SearchCall("mode6", 6, 0, 0, 0)>>))))

\* err of bc7_enc_mode01237 as it is compared with best_err: opaque_err
\* added unless the mode is 7
Mode01237Err(c, r, opaque) ==
    IF c.mode # 7 THEN F32Add(r.err, opaque) ELSE r.err

\* bc7_enc_mode01237 that for part_count = 0 does not return but codes its
\* locals as declared, with partition 0
bc7_enc_mode01237_nocount(c, r, opaque, cur) ==
    IF c.part_count = 0
    THEN [best_err |-> cur.best_err,
          data |-> bc7_code_mode01237(Zeros(24), <<Zeros(32), Zeros(32)>>,
                                      0, c.mode).data]
    ELSE The({IF F32Lt(err, cur.best_err)
              THEN [best_err |-> err,
                    data |-> bc7_code_mode01237(
                                 r.qep, r.qblock, r.part_id, c.mode).data]
              ELSE cur :
              err \in {Mode01237Err(c, r, opaque)}})

\* bc7_enc_mode01237 with a tie against the running best kept
bc7_enc_mode01237_tie(c, r, opaque, cur) ==
    IF c.part_count = 0 THEN cur
    ELSE The({IF ~F32Lt(cur.best_err, err)
              THEN [best_err |-> err,
                    data |-> bc7_code_mode01237(
                                 r.qep, r.qblock, r.part_id, c.mode).data]
              ELSE cur :
              err \in {Mode01237Err(c, r, opaque)}})

\* bc7_enc_mode01237 from the result r of its partition scan and refinement
\* on: nothing for part_count = 0, opaque_err added unless the mode is 7, and
\* the block coded when the error is below the running best
bc7_enc_mode01237(c, r, opaque, cur) ==
    IF c.part_count = 0 THEN cur
    ELSE The({IF F32Lt(err, cur.best_err)
              THEN [best_err |-> err,
                    data |-> bc7_code_mode01237(
                                 r.qep, r.qblock, r.part_id, c.mode).data]
              ELSE cur :
              err \in {Mode01237Err(c, r, opaque)}})

\* Mode45Parameters::default()
Mode45Default ==
    [qep |-> [i \in 1..8 |-> 0], qblock |-> <<Zeros(32), Zeros(32)>>,
     aqep |-> [i \in 1..2 |-> 0], aqblock |-> <<Zeros(32), Zeros(32)>>,
     rotation |-> 0, swap |-> 0]

\* bc7_enc_mode45_candidate from the candidate's result r on: the locals
\* best_candidate and best_err of bc7_enc_mode45 after the call
bc7_enc_mode45_candidate(loc, r) ==
    IF F32Lt(r.err, loc.best_err)
    THEN [best_err |-> r.err,
          best_candidate |-> [qep |-> r.qep, qblock |-> r.qblock,
                              aqep |-> r.aqep, aqblock |-> r.aqblock,
                              rotation |-> r.rotation, swap |-> r.swap]]
    ELSE loc

\* the compare-and-code step of bc7_enc_mode45 after the candidates of a mode
bc7_enc_mode45_keep(loc, mode, cur) ==
    IF F32Lt(loc.best_err, cur.best_err)
    THEN [best_err |-> loc.best_err,
          data |-> bc7_code_mode45(loc.best_candidate, mode).data]
    ELSE cur

\* bc7_enc_mode6 from the result r of its search on
bc7_enc_mode6_keep(r, cur) ==
    IF F32Lt(r.err, cur.best_err)
    THEN [best_err |-> r.err, data |-> bc7_code_mode6(r.qep, r.qblock).data]
    ELSE cur

\* the quantized endpoints qd and the indices block_quant gives the block
\* under one pair (pattern 0)
Quantized(blk, bits, channels, qd) ==
    The({[ep |-> qd.ep, qep |-> qd.qep, qblock |-> bq.qblock, err |-> bq.err] :
         bq \in {block_quant(blk, bits, qd.ep, Zeros(32), channels)}})

\* one round of a search: ep_quant_dequant of ep, then block_quant
EndpointsRound(blk, bits, mode, channels, ep) ==
    The({Quantized(blk, bits, channels, qd) :
         qd \in {ep_quant_dequant(ep, mode, channels)}})

RECURSIVE RefineEndpoints(_, _, _, _, _, _)
\* the refinement loop of bc7_enc_mode45_candidate and of bc7_enc_mode6: n
\* more rounds from r = [ep, qep, qblock, err]; each round replaces all four
RefineEndpoints(n, blk, bits, mode, channels, r) ==
    IF n = 0 THEN r
    ELSE The({RefineEndpoints(n - 1, blk, bits, mode, channels, round) :
              round \in {The({EndpointsRound(blk, bits, mode, channels, ep) :
                              ep \in {opt_endpoints(r.ep, blk, bits, r.qblock,
                                                    AllTexels, channels)}})}})

\* the refinement loop of bc7_enc_mode6
Refine6(n, blk, channels, r) == RefineEndpoints(n, blk, 4, 6, channels, r)

\* the ep of bc7_enc_mode6 before they are quantized: alpha 255.0 at both
\* ends for 3 channels
OpaqueEnds(seg, channels) ==
    IF channels = 3 THEN [seg EXCEPT ![4] = F32Byte, ![8] = F32Byte] ELSE seg

\* the search of bc7_enc_mode6 before it compares with best_err: [ep, qep,
\* qblock, err]; it panics where block_segment does
Mode6Search(blk, st) ==
    IF st.channels > 4 THEN <<>>
    ELSE
    The({The({Refine6(st.refine_iterations[7], blk, st.channels, r) :
              r \in {EndpointsRound(blk, 4, 6, st.channels,
                                    OpaqueEnds(seg, st.channels))}}) :
         seg \in {block_segment(blk, AllTexels, st.channels)}})

\* candidate_block of bc7_enc_mode45_candidate
CandidateBlock(blk, channels, rotation) ==
    Word([i \in 1..64 |->
        IF i > 48 THEN 0
        ELSE IF rotation < 3 /\ (i - 1) \div 16 = rotation
        THEN (IF channels = 3 THEN F32Byte
              ELSE IF channels = 4 THEN blk[48 + ((i - 1) % 16) + 1]
              ELSE blk[i])
        ELSE blk[i]])

\* bits, abits and aepbits of bc7_enc_mode45_candidate
Mode45Bits(swap) == IF swap = 1 THEN 3 ELSE 2
Mode45ABits(mode, swap) == IF swap = 1 THEN 2 ELSE IF mode = 4 THEN 3 ELSE 2
Mode45AEpBits(mode) == IF mode = 4 THEN 6 ELSE 8

\* the colour half of bc7_enc_mode45_candidate on candidate_block: [ep, qep,
\* qblock, err]
Mode45Colour(candidate_block, st, mode, bits) ==
    The({The({RefineEndpoints(st.refine_iterations[mode + 1],
                              candidate_block, bits, mode, 3, r) :
              r \in {EndpointsRound(candidate_block, bits, mode, 3, seg)}}) :
         seg \in {block_segment(candidate_block, AllTexels, 3)}})

\* the search of bc7_enc_mode45_candidate before it compares with best_err:
\* what it found, as bc7_code_mode45 takes it, and the error; for a rotation
\* above 3 block[k + rotation * 16] is past the end of the block, and the
\* function panics
Mode45Search(blk, st, mode, rotation, swap) ==
    IF rotation > 3 THEN <<>>
    ELSE
    The({The({[err |-> F32Add(r.err, a.err),
               qep |-> r.qep, qblock |-> r.qblock,
               aqep |-> a.qep, aqblock |-> a.qblock,
               rotation |-> rotation, swap |-> swap] :
              a \in {The({opt_channel(st, channel_block,
                                      Mode45ABits(mode, swap),
                                      Mode45AEpBits(mode)) :
                          channel_block \in
                              {Word([k \in 1..16 |-> blk[k + rotation * 16]])}})}}) :
         r \in {The({Mode45Colour(candidate_block, st, mode, Mode45Bits(swap)) :
                     candidate_block \in
                         {CandidateBlock(blk, st.channels, rotation)}})}})

\* bits, pairs and channels of bc7_enc_mode01237
SearchBits(mode) == IF mode = 0 \/ mode = 1 THEN 3 ELSE 2
Pairs(mode) == IF mode = 0 \/ mode = 2 THEN 3 ELSE 2
ModeChannels(mode) == IF mode = 7 THEN 4 ELSE 3

\* [0.0; 24] with the eight ep of each pair j < pairs given by pair[j + 1]
PairEndpoints(pair) ==
    pair[1] \o pair[2] \o (IF Len(pair) = 3 THEN pair[3] ELSE Zeros(8))

\* bc7_enc_mode01237_part_fast(qep, qblock, part_id, mode): the qep and
\* qblock it leaves and the error it returns
bc7_enc_mode01237_part_fast(blk, part_id, mode) ==
    The({The({The({[err |-> bq.err, qep |-> qd.qep, qblock |-> bq.qblock] :
                   bq \in {block_quant(blk, SearchBits(mode), qd.ep,
                                       get_pattern(part_id),
                                       ModeChannels(mode))}}) :
              qd \in {ep_quant_dequant(PairEndpoints(seg), mode,
                                       ModeChannels(mode))}}) :
         seg \in {Word([j \in 1..Pairs(mode) |->
                     block_segment(blk, get_pattern_mask(part_id, j - 1),
                                   ModeChannels(mode))])}})

\* the values of the locals best_qep, best_qblock, best_part_id and
\* best_err of bc7_enc_mode01237
Mode01237Locals ==
    [qep : Seq(Int), qblock : Seq(Seq({0, 1})), part_id : Int, err : Int]

\* the locals best_qep, best_qblock, best_part_id and best_err of
\* bc7_enc_mode01237 as declared
Mode01237Start ==
    [qep |-> Zeros(24), qblock |-> <<Zeros(32), Zeros(32)>>, part_id |-> -1,
     err |-> F32Inf]

\* the part_id of entry i (from 1) of part_list in bc7_enc_mode01237
PartId(mode, part_list, i) ==
    (part_list[i] % 64) + (IF Pairs(mode) = 3 THEN 64 ELSE 0)

\* best_qep, best_qblock, best_part_id and best_err after the partition
\* loop of bc7_enc_mode01237 from entry i on (from 1), results[i] being what
\* bc7_enc_mode01237_part_fast gives for entry i
Mode01237Best(mode, part_list, results, i, best) ==
    LET from[k \in 1..(Len(results) + 1), b \in Mode01237Locals] ==
            IF k > Len(results) THEN b
            ELSE from[k + 1,
                      IF F32Lt(results[k].err, b.err)
                      THEN [qep |-> results[k].qep, qblock |-> results[k].qblock,
                            part_id |-> PartId(mode, part_list, k),
                            err |-> results[k].err]
                      ELSE b]
    IN from[i, best]

\* the partition loop of bc7_enc_mode01237 over the first part_count
\* entries of part_list
Mode01237Scan(blk, mode, part_list, part_count) ==
    The({Mode01237Best(mode, part_list, results, 1, Mode01237Start) :
         results \in {Word([i \in 1..part_count |->
                         bc7_enc_mode01237_part_fast(
                             blk, PartId(mode, part_list, i), mode)])}})

\* one round of the refinement loop of bc7_enc_mode01237: the locals after
\* opt_endpoints on each pair, ep_quant_dequant and block_quant
Mode01237Round(blk, mode, best) ==
    The({The({The({IF F32Lt(bq.err, best.err)
                   THEN [qep |-> qd.qep, qblock |-> bq.qblock,
                         part_id |-> best.part_id, err |-> bq.err]
                   ELSE best :
                   bq \in {block_quant(blk, SearchBits(mode), qd.ep,
                                       get_pattern(best.part_id),
                                       ModeChannels(mode))}}) :
              qd \in {ep_quant_dequant(PairEndpoints(ep), mode,
                                       ModeChannels(mode))}}) :
         ep \in {Word([j \in 1..Pairs(mode) |->
                    opt_endpoints(Zeros(8), blk, SearchBits(mode), best.qblock,
                                  get_pattern_mask(best.part_id, j - 1),
                                  ModeChannels(mode))])}})

RECURSIVE Mode01237Refine(_, _, _, _)
\* the refinement loop of bc7_enc_mode01237: n more rounds
Mode01237Refine(n, blk, mode, best) ==
    IF n = 0 THEN best
    ELSE The({Mode01237Refine(n - 1, blk, mode, b) :
              b \in {Mode01237Round(blk, mode, best)}})

\* the search of bc7_enc_mode01237 for part_count > 0, before it adds
\* opaque_err and compares with best_err: [qep, qblock, part_id, err]
Mode01237Search(blk, st, mode, part_list, part_count) ==
    The({Mode01237Refine(st.refine_iterations[mode + 1], blk, mode, best) :
         best \in {Mode01237Scan(blk, mode, part_list, part_count)}})

\* the outer loop of partial_sort_list from k on (from 0), for a list that
\* has the entries the loop reads: round k swaps list[k] with the first
\* least entry among list[k..length], with itself when k >= length
partial_sort_from(list, length, partial_count, k) ==
    LET best_idx(l, n) == IF n >= length THEN n + 1
                          ELSE CHOOSE i \in (n + 1)..length :
                                   \A j \in (n + 1)..length :
                                       /\ l[i] <= l[j]
                                       /\ j < i => l[j] > l[i]
        swapped(l, n, i) == [l EXCEPT ![n + 1] = l[i], ![i] = l[n + 1]]
        from[n \in 0..partial_count, l \in Seq(Int)] ==
            IF n >= partial_count THEN l
            ELSE from[n + 1, swapped(l, n, best_idx(l, n))]
    IN from[k, list]

\* partial_sort_list(list, length, partial_count): the list it leaves and
\* whether it panicked on an index past the end of the list, in its first
\* round when length > Len(list) and else after Len(list) rounds
partial_sort_list(list, length, partial_count) ==
    IF ~partial_sort_panics(Len(list), length, partial_count)
    THEN [list |-> partial_sort_from(list, length, partial_count, 0),
          panicked |-> FALSE]
    ELSE IF length > Len(list) THEN [list |-> list, panicked |-> TRUE]
    ELSE [list |-> partial_sort_from(list, length, Len(list), 0),
          panicked |-> TRUE]

\* the part_list of bc7_enc_mode13 (channels = 3) and of bc7_enc_mode7
\* (channels = settings.channels) after partial_sort_list, and whether
\* partial_sort_list panicked; on more than 4 channels compute_stats_masked
\* panics with part_list still [0; 64]
BoundedPartList(blk, channels, partial_count) ==
    IF channels > 4 THEN [list |-> Const(64, 0), panicked |-> TRUE]
    ELSE
    The({The({partial_sort_list(list, 64, partial_count) :
              list \in {Word([part \in 1..64 |->
                           (part - 1)
                           + F32ToInt(block_pca_bound_split(
                                          blk, get_pattern_mask(part - 1, 0),
                                          full_stats, channels)) * 64])}}) :
         full_stats \in {compute_stats_masked(blk, AllTexels, channels)}})

\* the part_list bc7_enc_mode13 builds and sorts, for mode 1 and then for
\* mode 3; <<>> when calls has neither
PartList13(blk, st, calls) ==
    IF \E i \in 1..Len(calls) : calls[i].op = "mode01237" /\ calls[i].mode = 1
    THEN BoundedPartList(blk, 3, PartialCount13(st)).list
    ELSE <<>>

\* the part_list a call of bc7_enc_mode01237 is given: that of
\* bc7_enc_mode02, the one bc7_enc_mode13 has built, or the one
\* bc7_enc_mode7 builds
PartList(blk, st, mode, built) ==
    IF mode = 0 \/ mode = 2 THEN Word([part \in 1..64 |-> part - 1])
    ELSE IF mode = 1 \/ mode = 3 THEN built
    ELSE BoundedPartList(blk, st.channels, st.fast_skip_threshold_mode7).list

\* what step c of compress_block_bc7_core finds on block blk before it
\* compares with best_err: the result of the search of bc7_enc_mode01237
\* (none for part_count = 0), of bc7_enc_mode45_candidate or of
\* bc7_enc_mode6; built is the part_list of bc7_enc_mode13
SearchResult(c, blk, st, built) ==
    CASE c.op = "mode01237" /\ c.part_count > 0 ->
             The({Mode01237Search(blk, st, c.mode, list, c.part_count) :
                  list \in {PartList(blk, st, c.mode, built)}})
      [] c.op = "candidate" ->
             Mode45Search(blk, st, c.mode, c.rotation, c.swap)
      [] c.op = "mode6" -> Mode6Search(blk, st)
      [] OTHER -> <<>>

\* best_err and data of the compressor in s, and s with those of new
BestOf(s) == [best_err |-> s.best_err, data |-> s.data]
WithBest(s, new) == [s EXCEPT !.best_err = new.best_err, !.data = new.data]

\* step c of compress_block_bc7_core, r being what its search found: s holds
\* best_err and data of the compressor and the locals of bc7_enc_mode45
\* (candidate)
SearchStep(c, r, opaque, s) ==
    CASE c.op = "mode01237" ->
             WithBest(s, bc7_enc_mode01237(c, r, opaque, BestOf(s)))
      [] c.op = "enter45" ->
             [s EXCEPT !.candidate = [best_err |-> s.best_err,
                                      best_candidate |-> Mode45Default]]
      [] c.op = "candidate" ->
             [s EXCEPT !.candidate = bc7_enc_mode45_candidate(s.candidate, r)]
      [] c.op = "keep45" ->
             WithBest(s, bc7_enc_mode45_keep(s.candidate, c.mode, BestOf(s)))
      [] c.op = "mode6" -> WithBest(s, bc7_enc_mode6_keep(r, BestOf(s)))

RECURSIVE SearchFrom(_, _, _, _, _)
\* the steps of compress_block_bc7_core from step i of calls on, results[i]
\* being what the search of step i found
SearchFrom(i, calls, results, opaque, s) ==
    IF i > Len(calls) THEN s
    ELSE The({SearchFrom(i + 1, calls, results, opaque, t) :
              t \in {SearchStep(calls[i], results[i], opaque, s)}})

\* bc7_enc_mode6 on block blk with settings st; cur is [best_err, data]
\* before the search and the result is the same record after it; it panics
\* where block_segment does
bc7_enc_mode6(blk, st, cur) ==
    IF st.channels > 4 THEN <<>>
    ELSE The({bc7_enc_mode6_keep(r, cur) : r \in {Mode6Search(blk, st)}})

\* what the searches of the steps calls find on block blk
SearchResults(calls, blk, st) ==
    The({Word([i \in 1..Len(calls) |-> SearchResult(calls[i], blk, st, built)]) :
         built \in {PartList13(blk, st, calls)}})

\* compress_block_bc7_core on block blk with settings st and the opaque_err
\* of the compressor; cur is [best_err, data] before the call and the result
\* is best_err and data after it, with whether the call panicked after its
\* steps instead of returning
compress_block_bc7_core(blk, st, opaque, cur) ==
    The({The({The({[best_err |-> s.best_err, data |-> s.data,
                    panicked |-> made.panicked] :
                   s \in {SearchFrom(1, made.calls, results, opaque,
                                     [best_err |-> cur.best_err,
                                      data |-> cur.data,
                                      candidate |-> <<>>])}}) :
              results \in {SearchResults(made.calls, blk, st)}}) :
         made \in {SearchCalls(st)}})

(***************************************************************************)
(* The entry points: compress_rgba8 and decompress_blocks_as_rgba8         *)
(***************************************************************************)
\* CompressionVariant::block_byte_size
block_byte_size == 16

\* CompressionVariant::blocks_byte_size(width, height)
blocks_byte_size(width, height) ==
    ((width + 3) \div 4) * ((height + 3) \div 4) * block_byte_size

\* BlockCompressorBC7::store_data(blocks_buffer, block_width, xx, yy): the
\* 16 bytes of d go in one by one at (yy * block_width + xx) * 16; an index
\* past the end of the buffer panics with the bytes before it written
\* store_data with the offset of the block taken from its column alone
store_data_at_norow(d, buf, block_width, xx, yy) ==
    The({[out |-> Word([b \in 1..Len(buf) |->
                     IF b > xx * 16 /\ b <= xx * 16 + 16
                     THEN stored[b - xx * 16] ELSE buf[b]]),
          panicked |-> xx * 16 + 16 > Len(buf)] :
         stored \in {Word(store_data(d))}})

store_data_at(d, buf, block_width, xx, yy) ==
    The({[out |-> Word([b \in 1..Len(buf) |->
                     IF b > (yy * block_width + xx) * 16
                        /\ b <= (yy * block_width + xx) * 16 + 16
                     THEN stored[b - (yy * block_width + xx) * 16]
                     ELSE buf[b]]),
          panicked |-> (yy * block_width + xx) * 16 + 16 > Len(buf)] :
         stored \in {Word(store_data(d))}})

RECURSIVE compress_bc7_from(_, _, _, _, _, _, _)
\* the loop of compress_bc7 from block i on (yy = i / block_width, xx = i %
\* block_width): the buffer it leaves and how it ended.  Each block gets a
\* new compressor, which loads the block, computes opaque_err, searches and
\* stores.
compress_bc7_from(i, rgba, buf, block_width, block_height, stride, st) ==
    IF i >= block_width * block_height
    THEN [out |-> buf, outcome |-> "returned"]
    ELSE The({IF blk = <<>> THEN [out |-> buf, outcome |-> "panic"]
              ELSE The({IF r.panicked THEN [out |-> buf, outcome |-> "panic"]
                        ELSE The({IF w.panicked
                                  THEN [out |-> w.out, outcome |-> "panic"]
                                  ELSE compress_bc7_from(
                                           i + 1, rgba, w.out, block_width,
                                           block_height, stride, st) :
                                  w \in {store_data_at(
                                             r.data, buf, block_width,
                                             i % block_width,
                                             i \div block_width)}}) :
                        r \in {compress_block_bc7_core(
                                   blk, st,
                                   compute_opaque_err(blk, st.channels),
                                   [best_err |-> INFINITY,
                                    data |-> ZeroData])}}) :
              blk \in {load_block_interleaved_rgba(
                          rgba, i % block_width, i \div block_width, stride)}})

\* compress_bc7(rgba_data, blocks_buffer, block_width, block_height, stride,
\* settings)
compress_bc7(rgba, buf, block_width, block_height, stride, st) ==
    compress_bc7_from(0, rgba, buf, block_width, block_height, stride, st)

\* compress_rgba8 without its three assertions
compress_rgba8_unchecked(rgba, buf, width, height, stride, st) ==
    compress_bc7(rgba, buf, (width + 3) \div 4, (height + 3) \div 4, stride, st)

\* compress_rgba8 asserting that the buffer has exactly the required size
compress_rgba8_exact(rgba, buf, width, height, stride, st) ==
    IF height % 4 # 0 \/ width % 4 # 0
    THEN [out |-> buf, outcome |-> "assert"]
    ELSE IF Len(buf) # blocks_byte_size(width, height)
    THEN [out |-> buf, outcome |-> "assert"]
    ELSE compress_bc7(rgba, buf, (width + 3) \div 4, (height + 3) \div 4,
                      stride, st)

\* compress_rgba8(variation = BC7(st), rgba_data, blocks_buffer, width,
\* height, stride): the buffer it leaves and how it ended, "assert" for a
\* failed assertion
compress_rgba8(rgba, buf, width, height, stride, st) ==
    IF height % 4 # 0 \/ width % 4 # 0
    THEN [out |-> buf, outcome |-> "assert"]
    ELSE IF ~(Len(buf) >= blocks_byte_size(width, height))
    THEN [out |-> buf, outcome |-> "assert"]
    ELSE compress_bc7(rgba, buf, (width + 3) \div 4, (height + 3) \div 4,
                      stride, st)

RECURSIVE decompress_rgba8_from(_, _, _, _, _)
\* the loops of decompress_rgba8 from block i on (by = i / blocks_x, bx = i
\* % blocks_x); break leaves the row of blocks
decompress_rgba8_from(i, width, height, blocks_data, rgba) ==
    LET blocks_x == (width + 3) \div 4
        blocks_y == (height + 3) \div 4
        output_row_pitch == width * 4
        bx == i % blocks_x
        by == i \div blocks_x
        block_offset == i * block_byte_size
        output_offset == by * 4 * output_row_pitch + bx * 16
        decoded(r) ==
            IF r.panicked
            THEN [out |-> SubSeq(rgba, 1, output_offset) \o Word(r.out),
                  outcome |-> "panic"]
            ELSE decompress_rgba8_from(
                     i + 1, width, height, blocks_data,
                     SubSeq(rgba, 1, output_offset) \o Word(r.out))
    IN IF i >= blocks_x * blocks_y THEN [out |-> rgba, outcome |-> "returned"]
       ELSE IF block_offset + block_byte_size > Len(blocks_data)
       THEN decompress_rgba8_from((by + 1) * blocks_x, width, height,
                                  blocks_data, rgba)
       ELSE IF output_offset < Len(rgba)
       THEN decoded(decode_block_bc7(
                        SubSeq(blocks_data, block_offset + 1,
                               block_offset + block_byte_size),
                        SubSeq(rgba, output_offset + 1, Len(rgba)),
                        output_row_pitch))
       ELSE decompress_rgba8_from(i + 1, width, height, blocks_data, rgba)

\* decompress_rgba8 with its loops started after the first block
decompress_rgba8_skipfirst(width, height, blocks_data, rgba) ==
    decompress_rgba8_from(1, width, height, blocks_data, rgba)

\* decompress_rgba8(width, height, blocks_data, rgba_data)
decompress_rgba8(width, height, blocks_data, rgba) ==
    decompress_rgba8_from(0, width, height, blocks_data, rgba)

\* decompress_blocks_as_rgba8 asserting that the buffers are long enough
decompress_blocks_as_rgba8_atleast(width, height, blocks_data, rgba) ==
    IF ~(Len(blocks_data) >= blocks_byte_size(width, height))
    THEN [out |-> rgba, outcome |-> "assert"]
    ELSE IF ~(Len(rgba) >= width * height * 4)
    THEN [out |-> rgba, outcome |-> "assert"]
    ELSE decompress_rgba8(width, height, blocks_data, rgba)

\* decompress_blocks_as_rgba8(variant, width, height, blocks_data,
\* rgba_data): the pixels it leaves and how it ended
decompress_blocks_as_rgba8(width, height, blocks_data, rgba) ==
    IF Len(blocks_data) # blocks_byte_size(width, height)
    THEN [out |-> rgba, outcome |-> "assert"]
    ELSE IF Len(rgba) # width * height * 4
    THEN [out |-> rgba, outcome |-> "assert"]
    ELSE decompress_rgba8(width, height, blocks_data, rgba)

(***************************************************************************)
(* Writing fields and reading them back                                    *)
(***************************************************************************)
\* how many fields one run writes at most
MaxFields == 4

\* the widths tried: they make fields straddle the writer's 32-bit words
\* and the reader's 64-bit halves
FieldWidths == {1, 27, 32}

\* the values tried for a width: every bit set, and only the two end bits
FieldValues(w) == {Ones(w) \o Zeros(32 - w),
                   [i \in 1..32 |-> IF i = 1 \/ i = w THEN 1 ELSE 0]}

\* the variables a scenario does not use
DataIdle == data = ZeroData /\ pos = 0

BitsIdle == written = <<>> /\ bstream = EmptyStream /\ got = <<>>

DestIdle == dest0 = <<>> /\ dest = <<>> /\ destination_pitch = 0 /\ outcome = "none"

PackIdle == input = <<>> /\ fields = <<>>

EncIdle == settings = <<>> /\ block = <<>> /\ best_err = 0 /\ opaque_err = 0

ApiIdle == call = <<>> /\ rgba_data = <<>> /\ blocks_buffer = <<>>

TilesIdle == compressors = <<>>

ModesIdle == found = <<>> /\ searched = <<>> /\ candidate = <<>>

QuantIdle == quant = <<>>

TablesIdle == tables = <<>> /\ shl_call = <<>>

QueueIdle == queue = <<>>

GpuIdle ==
    /\ task = <<>>
    /\ uniforms_buffer = <<>>
    /\ bc7_settings_buffer = <<>>
    /\ device = <<>>
    /\ uniforms_aligned_size = 0
    /\ bc7_aligned_size = 0
    /\ pass = <<>>

InitBits ==
    /\ pc = "write"
    /\ data = ZeroData
    /\ pos = 0
    /\ written = <<>>
    /\ bytes = <<>>
    /\ bstream = EmptyStream
    /\ got = <<>>
    /\ DestIdle
    /\ PackIdle
    /\ EncIdle
    /\ ApiIdle
    /\ TilesIdle
    /\ ModesIdle
    /\ QuantIdle
    /\ TablesIdle /\ QueueIdle
    /\ GpuIdle

\* one put_bits call
PutBits ==
    /\ pc = "write"
    /\ Len(written) < MaxFields
    /\ \E w \in FieldWidths : \E v \in FieldValues(w) :
        /\ pos + w <= 128
        /\ LET r == put_bits(data, pos, w, v)
           IN /\ data' = r.data
              /\ pos' = r.pos
        /\ written' = Append(written, [bits |-> w, v |-> v])
    /\ UNCHANGED <<pc, bytes, bstream, got, notBits>>

\* store_data, then BitStream::new on the stored bytes
StoreAndOpen ==
    /\ pc = "write"
    /\ written # <<>>
    /\ bytes' = store_data(data)
    /\ bstream' = BitStream_new(bytes')
    /\ pc' = "read"
    /\ UNCHANGED <<data, pos, written, got, notBits>>

\* one read_bits call, with the width of the next field written
ReadBits ==
    /\ pc = "read"
    /\ Len(got) < Len(written)
    /\ LET r == read_bits(bstream, written[Len(got) + 1].bits)
       IN /\ got' = Append(got, r.bits)
          /\ bstream' = r.bs
    /\ UNCHANGED <<pc, data, pos, written, bytes, notBits>>

NextBits == PutBits \/ StoreAndOpen \/ ReadBits

SpecBits == InitBits /\ [][NextBits]_vars

\* the bit position at which field i starts
RECURSIVE FieldStart(_)
FieldStart(i) == IF i = 1 THEN 0 ELSE FieldStart(i - 1) + written[i - 1].bits

\* C5: every value read back, in order and with the width it was written
\* with, is the value that was written.
C5_ReadBackEqualsWritten ==
    \A i \in 1..Len(got) : got[i] = written[i].v

\* a run that wrote a field across a 32-bit word boundary and one across
\* the bit 64 boundary, one of them 32 bits wide, and read all of them back
C5_Witness ==
    /\ pc = "read"
    /\ Len(got) = Len(written)
    /\ \E i \in 1..Len(written) :
          /\ FieldStart(i) < 64 /\ FieldStart(i) + written[i].bits > 64
    /\ \E i \in 1..Len(written) :
          /\ FieldStart(i) < 32 /\ FieldStart(i) + written[i].bits > 32
    /\ \E i \in 1..Len(written) : written[i].bits = 32 /\ written[i].v[32] = 1

(***************************************************************************)
(* Decoding one block                                                      *)
(***************************************************************************)
\* the block of test_bc7_block_0
Fixture0 == <<64, 175, 246, 11, 253, 46, 255, 255,
              17, 113, 16, 161, 33, 242, 51, 115>>

\* the first 32 expected bytes of test_bc7_block_0 (the test compares four
\* rows of pitch 8)
Expected0 == <<189, 191, 191, 255, 189, 189, 189, 255,
               189, 191, 191, 255, 189, 189, 189, 255,
               189, 189, 189, 255, 188, 187, 185, 255,
               187, 185, 183, 255, 187, 185, 183, 255>>

\* the block of test_bc7_block_1
Fixture1 == <<192, 140, 239, 162, 187, 220, 254, 127,
              108, 85, 106, 52, 79, 0, 93, 0>>

\* first bytes: none of the low 8 bits set, and each mode 0..7
FirstBytes == {0, 1, 2, 4, 8, 16, 32, 64, 128, 53, 106, 31, 254, 252, 248}

\* the other 15 bytes are x * b + y mod 256
RestPatterns == {<<0, 0>>, <<0, 255>>, <<37, 11>>, <<101, 90>>}

DecodeBlocks ==
    {Fixture0, Fixture1} \cup
    {[b \in 1..16 |-> IF b = 1 THEN first ELSE (xy[1] * b + xy[2]) % 256] :
        first \in FirstBytes, xy \in RestPatterns}

InitDecode ==
    /\ pc = "block"
    /\ bytes \in DecodeBlocks
    /\ destination_pitch \in {8, 16}
    /\ dest0 \in {Const(64, 0), Const(64, 170)}
    /\ dest = dest0
    /\ outcome = "none"
    /\ DataIdle
    /\ BitsIdle
    /\ PackIdle
    /\ EncIdle
    /\ ApiIdle
    /\ TilesIdle
    /\ ModesIdle
    /\ QuantIdle
    /\ TablesIdle /\ QueueIdle
    /\ GpuIdle

\* decode_block_bc7(bytes, dest, destination_pitch)
DecodeBlock ==
    /\ pc = "block"
    /\ LET r == decode_block_bc7(bytes, dest, destination_pitch)
       IN /\ dest' = r.out
          /\ outcome' = IF r.panicked THEN "panic" ELSE "returned"
    /\ pc' = "decoded"
    /\ UNCHANGED <<bytes, destination_pitch, dest0, notDecode>>

\* the blocks a caller decodes next into the destination it has just used
SecondBlocks == {Fixture0, Fixture1, Const(16, 0)}

\* decode_block_bc7 called again, with another block, on the destination the
\* first call wrote
DecodeAgain ==
    /\ pc = "decoded"
    /\ outcome = "returned"
    /\ \E cb \in SecondBlocks :
          /\ bytes' = cb
          /\ LET r == decode_block_bc7(cb, dest, destination_pitch)
             IN /\ dest' = r.out
                /\ outcome' = IF r.panicked THEN "panic" ELSE "returned"
    /\ pc' = "again"
    /\ UNCHANGED <<destination_pitch, dest0, notDecode>>

NextDecode == DecodeBlock \/ DecodeAgain

SpecDecode == InitDecode /\ [][NextDecode]_vars

\* the four destination bytes of texel k (0-based) at the pitch in use
TexelBytes(k) ==
    LET offset == (k \div 4) * destination_pitch + (k % 4) * 4
    IN SubSeq(dest, offset + 1, offset + 4)

\* the mode of the block in bytes (8 when its first byte is 0)
BlockMode == FindMode(BitStream_new(bytes), 0).mode

\* C26: after decoding a block of mode 0, 1, 2 or 3 the alpha byte of each of
\* the 16 texels written is 255, whatever the other bits of the block are.
C26_NoAlphaModesAreOpaque ==
    (pc \in {"decoded", "again"} /\ BlockMode \in 0..3) =>
        /\ outcome = "returned"
        /\ \A k \in 0..15 : TexelBytes(k)[4] = 255

\* C26 witness: a block of mode 1 with partition 63 and set p-bits, decoded
\* at pitch 16 over a destination of 170s, with two texels of different
\* colour and alpha 255 in all 16.
C26_Witness ==
    /\ pc = "decoded"
    /\ BlockMode = 1
    /\ ParseFields(FindMode(BitStream_new(bytes), 0)).partition = 63
    /\ ParseFields(FindMode(BitStream_new(bytes), 0)).pbits[1] = 1
    /\ destination_pitch = 16
    /\ dest0 = Const(64, 170)
    /\ \E k, l \in 0..15 : SubSeq(TexelBytes(k), 1, 3) # SubSeq(TexelBytes(l), 1, 3)
    /\ \A k \in 0..15 : TexelBytes(k)[4] = 255

\* C3: a block whose first byte is 0 decodes to zero bytes at all 16 texel
\* positions (the whole 64-byte destination at pitch 16), whatever its
\* other bytes and whatever the destination held, and the call returns.
C3_InvalidBlockDecodesToZero ==
    (pc = "decoded" /\ bytes[1] = 0) =>
        /\ outcome = "returned"
        /\ \A k \in 0..15 : TexelBytes(k) = <<0, 0, 0, 0>>
        /\ destination_pitch = 16 => dest = Const(64, 0)

\* an invalid block with other bits set, decoded at pitch 16 over a
\* destination that held non-zero bytes
C3_Witness ==
    /\ pc = "decoded"
    /\ bytes[1] = 0
    /\ \E b \in 2..16 : bytes[b] # 0
    /\ destination_pitch = 16
    /\ dest0 = Const(64, 170)
    /\ dest = Const(64, 0)

\* C4: the fixture of test_bc7_block_0 decodes at pitch 8 to the expected
\* bytes (BD BF BF FF BD BD BD FF first), and every texel of a mode-6 block
\* is the interpolation of the two expanded endpoints at its index, stored
\* at row * pitch + col * 4.
C4_Mode6Fixture ==
    /\ (pc = "decoded" /\ bytes = Fixture0 /\ destination_pitch = 8) =>
          /\ SubSeq(dest, 1, 8) = <<189, 191, 191, 255, 189, 189, 189, 255>>
          /\ SubSeq(dest, 1, 32) = Expected0
    /\ (pc = "decoded" /\ bytes = Fixture0 /\ destination_pitch = 16) =>
          \A k \in 0..15 :
             LET idx == <<0, 1, 1, 7, 0, 1, 1, 10, 1, 2, 2, 15, 3, 3, 3, 7>>
                 w == WEIGHT4[idx[k + 1] + 1]
                 mix(a, b) == (a * (64 - w) + b * w + 32) \div 64
             IN TexelBytes(k) = <<mix(189, 181), mix(191, 161),
                                  mix(191, 151), 255>>
    /\ (pc = "decoded" /\ destination_pitch = 16 /\ bytes[1] % 128 = 64) =>
          LET f == ParseFields(FindMode(BitStream_new(bytes), 0))
              e0(c) == f.raw[1][c] * 2 + f.pbits[1]
              e1(c) == f.raw[2][c] * 2 + f.pbits[2]
          IN \A k \in 0..15 :
                LET w == WEIGHT4[f.indices[k + 1] + 1]
                IN TexelBytes(k) =
                     [c \in 1..4 |-> (e0(c) * (64 - w) + e1(c) * w + 32) \div 64]

\* the fixture decoded at pitch 8 into a zeroed buffer
C4_Witness ==
    /\ pc = "decoded"
    /\ bytes = Fixture0
    /\ destination_pitch = 8
    /\ dest0 = Const(64, 0)
    /\ outcome = "returned"

(***************************************************************************)
(* Packing a block and reading its fields back                             *)
(***************************************************************************)
\* index patterns <<a, b>>: texel k gets (a * k + b) % levels; b is counted
\* in halves of levels, so that the first index falls in either half
IndexPatterns == {<<1, 0>>, <<3, 1>>, <<0, 2>>, <<2, 1>>}

Indices(pat, levels) ==
    [k \in 1..16 |->
        (pat[1] * (k - 1) + pat[2] * (levels \div 2) + levels - 1) % levels]

\* endpoint patterns <<x, y, z>>: component i gets (x * i + y) % 2^bits, and
\* z picks the p-bits
EndpointPatterns == {<<5, 3, 0>>, <<11, 7, 1>>}

\* the qep of a partitioned mode as the quantizers leave it: the
\* components of an endpoint (mode 1: of a pair) share their lowest bit
\* where the mode has p-bits, and stay within the mode's precision
Qep01237(mode, pat) ==
    LET pairs == IF mode = 0 \/ mode = 2 THEN 3 ELSE 2
        cb == ACTUAL_BITS_COUNT[1][mode + 1]
    IN [i \in 1..24 |->
          LET j == (i - 1) \div 4
              base == (pat[1] * (i - 1) + pat[2]) % Pow2(cb)
              pbit == IF mode = 1 THEN ((j \div 2) + pat[3]) % 2
                      ELSE (j + pat[3]) % 2
          IN IF j >= 2 * pairs THEN 0
             ELSE IF mode = 2 THEN base ELSE 2 * base + pbit]

Inputs01237 ==
    {[mode |-> m,
      part_id |-> IF m = 0 \/ m = 2 THEN id + 64 ELSE id,
      qep |-> Qep01237(m, ep),
      qblock |-> QBlock(Indices(ix, IF m = 0 \/ m = 1 THEN 8 ELSE 4))] :
        m \in {0, 1, 2, 3, 7}, id \in 0..63, ep \in EndpointPatterns,
        ix \in IndexPatterns}

\* Mode45Parameters: qep has 5 (mode 4) or 7 (mode 5) bits a component,
\* aqep 6 or 8; with swap the colour indices have 3 bits and the scalar
\* indices 2
Inputs45 ==
    {[mode |-> m,
      qep |-> [i \in 1..8 |->
                 (ep[1] * i + ep[2]) % Pow2(IF m = 4 THEN 5 ELSE 7)],
      aqep |-> [i \in 1..2 |->
                 (ep[2] * i + ep[1] + ep[3]) % Pow2(IF m = 4 THEN 6 ELSE 8)],
      qblock |-> QBlock(Indices(ix, IF sw = 1 THEN 8 ELSE 4)),
      aqblock |-> QBlock(Indices(ax, IF m = 4 /\ sw = 0 THEN 8 ELSE 4)),
      rotation |-> rot,
      swap |-> sw] :
        m \in {4, 5}, ep \in EndpointPatterns, ix \in IndexPatterns,
        ax \in {<<3, 1>>, <<1, 0>>}, rot \in 0..3, sw \in {0, 1}}

Inputs6 ==
    {[mode |-> 6,
      qep |-> [i \in 1..8 |->
                 2 * ((ep[1] * i + ep[2]) % 128)
                 + ((((i - 1) \div 4) + ep[3]) % 2)],
      qblock |-> QBlock(Indices(ix, 16))] :
        ep \in EndpointPatterns \cup {<<37, 90, 0>>, <<1, 126, 1>>},
        ix \in IndexPatterns \cup {<<5, 0>>, <<9, 1>>}}

InitPack ==
    /\ pc = "args"
    /\ input \in Inputs01237
                 \cup {i \in Inputs45 : i.mode = 4 \/ i.swap = 0}
                 \cup Inputs6
    /\ input.mode = 0 => input.part_id < 80
    /\ fields = <<>>
    /\ bytes = <<>>
    /\ DataIdle
    /\ BitsIdle
    /\ DestIdle
    /\ EncIdle
    /\ ApiIdle
    /\ TilesIdle
    /\ ModesIdle
    /\ QuantIdle
    /\ TablesIdle /\ QueueIdle
    /\ GpuIdle

\* bc7_code_mode01237(qep, qblock, part_id, mode)
CodeMode01237 ==
    /\ pc = "args"
    /\ input.mode \in {0, 1, 2, 3, 7}
    /\ LET r == bc7_code_mode01237(input.qep, input.qblock, input.part_id,
                                   input.mode)
       IN data' = r.data /\ pos' = r.pos
    /\ pc' = "coded"
    /\ UNCHANGED <<bytes, input, fields, notPack>>

\* bc7_code_mode45(params, mode)
CodeMode45 ==
    /\ pc = "args"
    /\ input.mode \in {4, 5}
    /\ LET r == bc7_code_mode45(input, input.mode)
       IN data' = r.data /\ pos' = r.pos
    /\ pc' = "coded"
    /\ UNCHANGED <<bytes, input, fields, notPack>>

\* bc7_code_mode6(qep, qblock)
CodeMode6 ==
    /\ pc = "args"
    /\ input.mode = 6
    /\ LET r == bc7_code_mode6(input.qep, input.qblock)
       IN data' = r.data /\ pos' = r.pos
    /\ pc' = "coded"
    /\ UNCHANGED <<bytes, input, fields, notPack>>

\* store_data: the 16 bytes of the block
StoreData ==
    /\ pc = "coded"
    /\ bytes' = store_data(data)
    /\ pc' = "stored"
    /\ UNCHANGED <<data, pos, input, fields, notPack>>

\* the decoder reads the mode and the fields of the stored block
ParseBlock ==
    /\ pc = "stored"
    /\ LET m == FindMode(BitStream_new(bytes), 0)
       IN fields' = IF m.mode >= 8 THEN [mode |-> m.mode] ELSE ParseFields(m)
    /\ pc' = "parsed"
    /\ UNCHANGED <<data, pos, bytes, input, notPack>>

NextPack == CodeMode01237 \/ CodeMode45 \/ CodeMode6 \/ StoreData \/ ParseBlock

SpecPack == InitPack /\ [][NextPack]_vars

\* C1: a block packed by bc7_code_mode01237 and read with the decoder's
\* layout gives the mode, the partition id, every endpoint component with
\* its p-bit and the canonicalized index of every texel that went in (the
\* two endpoints of a subset exchanged and its indices complemented when
\* the index of its fix-up texel is in the upper half), in exactly 128 bits.
C1_PartitionedRoundTrip ==
    (pc = "parsed" /\ input.mode \in {0, 1, 2, 3, 7}) =>
        LET mode == input.mode
            bits == IF mode = 0 \/ mode = 1 THEN 3 ELSE 2
            pairs == IF mode = 0 \/ mode = 2 THEN 3 ELSE 2
            channels == IF mode = 7 THEN 4 ELSE 3
            levels == Pow2(bits)
            part == IF mode = 0 THEN input.part_id % 16 ELSE input.part_id % 64
            sub(k) == PartitionSet(pairs, part, k) % 4
            anchor(s) == CHOOSE k \in 0..15 :
                            PartitionSet(pairs, part, k) >= 128 /\ sub(k) = s
            idx(k) == Nibble(input.qblock, k)
            flip(s) == idx(anchor(s)) >= levels \div 2
            comp(e, c) ==
                LET src == IF flip(e \div 2) THEN 2 * (e \div 2) + 1 - (e % 2)
                           ELSE e
                IN input.qep[4 * src + c + 1]
            pbit(e) == IF mode = 1 THEN fields.pbits[(e \div 2) + 1]
                       ELSE fields.pbits[e + 1]
        IN /\ fields.mode = mode
           /\ fields.partition = part
           /\ \A e \in 0..(2 * pairs - 1) : \A c \in 0..(channels - 1) :
                 IF mode = 2 THEN fields.raw[e + 1][c + 1] = comp(e, c)
                 ELSE fields.raw[e + 1][c + 1] * 2 + pbit(e) = comp(e, c)
           /\ \A k \in 0..15 :
                 fields.indices[k + 1] =
                     IF flip(sub(k)) THEN levels - 1 - idx(k) ELSE idx(k)
           /\ pos - (pairs - 1) = 128
           /\ data[5] = Zeros(32)
           /\ SeqSum(fields.widths) = 128

\* a three-subset block read back whose first subset was exchanged, whose
\* last was not, and whose fix-up texels are not all at the ends
C1_Witness ==
    /\ pc = "parsed"
    /\ input.mode = 0
    /\ fields.mode = 0
    /\ Nibble(input.qblock, 0) >= 4
    /\ fields.indices[1] < 4
    /\ \E k \in 1..14 :
          /\ PartitionSet(3, fields.partition, k) >= 128
          /\ Nibble(input.qblock, k) < 4
    /\ \E k \in 1..15 :
          /\ PartitionSet(3, fields.partition, k) >= 128
          /\ Nibble(input.qblock, k) >= 4

\* C2: a block packed by bc7_code_mode45 or bc7_code_mode6 and read with
\* the decoder's layout gives the mode, the endpoints with their p-bits and
\* the canonicalized index streams that went in; in modes 4 and 5 the
\* decoder puts the scalar stream in the channel the encoder set aside
\* (rotation 3: alpha itself) and that channel's colour stream in alpha, and
\* with the mode-4 swap flag the colour channels follow the 3-bit indices
\* and the scalar channel the 2-bit ones.
C2_UnpartitionedRoundTrip ==
    /\ (pc = "parsed" /\ input.mode = 6) =>
          LET flip == Nibble(input.qblock, 0) >= 8
              comp(e, c) == input.qep[4 * (IF flip THEN 1 - e ELSE e) + c + 1]
          IN /\ fields.mode = 6
             /\ \A e \in 0..1 : \A c \in 0..3 :
                   fields.raw[e + 1][c + 1] * 2 + fields.pbits[e + 1] = comp(e, c)
             /\ \A k \in 0..15 :
                   fields.indices[k + 1] =
                       IF flip THEN 15 - Nibble(input.qblock, k)
                       ELSE Nibble(input.qblock, k)
             /\ pos = 128
             /\ data[5] = Zeros(32)
             /\ SeqSum(fields.widths) = 128
    /\ (pc = "parsed" /\ input.mode \in {4, 5}) =>
          LET mode == input.mode
              cbits == IF input.swap = 1 THEN 3 ELSE 2
              sbits == IF mode = 4 /\ input.swap = 0 THEN 3 ELSE 2
              cflip == Nibble(input.qblock, 0) >= Pow2(cbits) \div 2
              sflip == Nibble(input.aqblock, 0) >= Pow2(sbits) \div 2
              cidx == [k \in 1..16 |->
                         IF cflip THEN Pow2(cbits) - 1 - Nibble(input.qblock, k - 1)
                         ELSE Nibble(input.qblock, k - 1)]
              sidx == [k \in 1..16 |->
                         IF sflip THEN Pow2(sbits) - 1 - Nibble(input.aqblock, k - 1)
                         ELSE Nibble(input.aqblock, k - 1)]
              cep(e, c) == input.qep[4 * (IF cflip THEN 1 - e ELSE e) + c + 1]
              sep(e) == input.aqep[(IF sflip THEN 1 - e ELSE e) + 1]
              full == FullEndpoints(fields)
              colour(k, c) == interpolate(full[1][c], full[2][c],
                                          Weights2(cbits), cidx[k])
              scalar(k) == interpolate(full[1][4], full[2][4],
                                       Weights2(sbits), sidx[k])
              texel(k) == [c \in 1..4 |->
                   IF input.rotation = 3
                   THEN (IF c = 4 THEN scalar(k) ELSE colour(k, c))
                   ELSE IF c = input.rotation + 1 THEN scalar(k)
                   ELSE IF c = 4 THEN colour(k, input.rotation + 1)
                   ELSE colour(k, c)]
          IN /\ fields.mode = mode
             /\ fields.rotation = IF input.rotation = 3 THEN 0
                                  ELSE input.rotation + 1
             /\ mode = 4 => fields.index_selection_bit = input.swap
             /\ \A e \in 0..1 :
                   /\ \A c \in 0..2 : fields.raw[e + 1][c + 1] = cep(e, c)
                   /\ fields.raw[e + 1][4] = sep(e)
             /\ IF input.swap = 1
                THEN fields.indices2 = cidx /\ fields.indices = sidx
                ELSE fields.indices = cidx /\ fields.indices2 = sidx
             /\ DecodeTexels(bytes) = [k \in 1..16 |-> texel(k)]
             /\ pos = 128
             /\ data[5] = Zeros(32)
             /\ SeqSum(fields.widths) = 128

\* a mode-4 block read back that was packed with the swap flag, with the
\* green channel set aside, and with both index streams complemented
C2_Witness ==
    /\ pc = "parsed"
    /\ input.mode = 4
    /\ input.swap = 1
    /\ input.rotation = 1
    /\ fields.mode = 4
    /\ fields.index_selection_bit = 1
    /\ fields.rotation = 2
    /\ Nibble(input.qblock, 0) >= 4
    /\ Nibble(input.aqblock, 0) >= 2
    /\ fields.indices2[1] < 4

\* the index the coder holds for texel k (0-based) after the apply-swap step,
\* before the top bit of the fix-up indices is left out; second = TRUE is
\* the scalar stream of modes 4 and 5
CanonicalIndex(in, k, second) ==
    IF in.mode \in {0, 1, 2, 3, 7}
    THEN LET levels == Pow2(IF in.mode \in {0, 1} THEN 3 ELSE 2)
             sw == bc7_code_apply_swap_mode01237(in.qep, in.qblock, in.mode,
                                                 in.part_id)
         IN IF sw.flips[k + 1] = 1 THEN levels - 1 - Nibble(in.qblock, k)
            ELSE Nibble(in.qblock, k)
    ELSE IF in.mode = 6
    THEN Nibble(bc7_code_apply_swap_mode456(in.qep, 4, in.qblock, 4).qblock, k)
    ELSE LET cbits == IF in.swap = 1 THEN 3 ELSE 2
             sbits == IF in.mode = 4 /\ in.swap = 0 THEN 3 ELSE 2
         IN IF second
            THEN Nibble(bc7_code_apply_swap_mode456(
                            in.aqep, 1, in.aqblock, sbits).qblock, k)
            ELSE Nibble(bc7_code_apply_swap_mode456(
                            in.qep, 4, in.qblock, cbits).qblock, k)

\* the subset of texel k (0-based) in the encoder's tables
EncoderSubset(in, k) ==
    IF in.mode \in {0, 1, 2, 3, 7}
    THEN CHOOSE j \in 0..2 : get_pattern_mask(in.part_id, j)[k + 1] = 1
    ELSE 0

\* the texel k (0-based) the encoder's arguments stand for, with nothing
\* exchanged or complemented: the endpoints as ep_dequant expands them (the
\* scalar ones of modes 4 and 5 as unpack_to_byte does) interpolated at the
\* index that went in
IntendedTexel(in, k) ==
    IF in.mode \in {4, 5}
    THEN LET cbits == IF in.swap = 1 THEN 3 ELSE 2
             sbits == IF in.mode = 4 /\ in.swap = 0 THEN 3 ELSE 2
             aepbits == IF in.mode = 4 THEN 6 ELSE 8
             ep(i) == F32ToInt(ep_dequant(<<0>>, <<in.qep[i]>>, in.mode)[1])
             colour(c) == interpolate(ep(c), ep(4 + c),
                                      Weights(cbits), Nibble(in.qblock, k))
             scalar == interpolate(unpack_to_byte(in.aqep[1], aepbits),
                                   unpack_to_byte(in.aqep[2], aepbits),
                                   Weights(sbits), Nibble(in.aqblock, k))
         IN [c \in 1..4 |->
               IF in.rotation = 3
               THEN (IF c = 4 THEN scalar ELSE colour(c))
               ELSE IF c = in.rotation + 1 THEN scalar
               ELSE IF c = 4 THEN colour(in.rotation + 1)
               ELSE colour(c)]
    ELSE LET bits == IF in.mode \in {0, 1} THEN 3
                     ELSE IF in.mode = 6 THEN 4 ELSE 2
             channels == IF in.mode \in {6, 7} THEN 4 ELSE 3
             s == EncoderSubset(in, k)
             ep(i) == F32ToInt(ep_dequant(<<0>>, <<in.qep[i]>>, in.mode)[1])
         IN [c \in 1..4 |->
               IF c > channels THEN 255
               ELSE interpolate(ep(8 * s + c), ep(8 * s + 4 + c),
                                Weights(bits), Nibble(in.qblock, k))]

\* C21: for every mode, partition and index assignment packed, the index the
\* coder holds after the apply-swap step for the fix-up texel of every
\* subset (texel 0 and the texels of get_skips; texel 0 of both streams in
\* modes 4 and 5) is below half the number of levels, and the stored block
\* decodes to the texels the arguments stood for before any endpoints were
\* exchanged and any indices complemented.
C21_CanonicalizationKeepsTexels ==
    pc = "parsed" =>
        /\ IF input.mode \in {0, 1, 2, 3, 7}
           THEN LET pairs == IF input.mode \in {0, 2} THEN 3 ELSE 2
                    half == IF input.mode \in {0, 1} THEN 4 ELSE 2
                IN \A j \in 1..pairs :
                      CanonicalIndex(input, get_skips(input.part_id)[j], FALSE)
                          < half
           ELSE IF input.mode = 6 THEN CanonicalIndex(input, 0, FALSE) < 8
           ELSE /\ CanonicalIndex(input, 0, FALSE)
                      < (IF input.swap = 1 THEN 4 ELSE 2)
                /\ CanonicalIndex(input, 0, TRUE)
                      < (IF input.mode = 4 /\ input.swap = 0 THEN 4 ELSE 2)
        /\ DecodeTexels(bytes) = [k \in 1..16 |-> IntendedTexel(input, k - 1)]

\* C21 witness: a three-subset block read back in which the fix-up texel of
\* the second subset is not texel 15, its index went in in the upper half
\* and was stored in the lower half
C21_Witness ==
    /\ pc = "parsed"
    /\ input.mode = 2
    /\ get_skips(input.part_id)[2] \in 1..14
    /\ Nibble(input.qblock, get_skips(input.part_id)[2]) >= 2
    /\ CanonicalIndex(input, get_skips(input.part_id)[2], FALSE) < 2
    /\ fields.indices[get_skips(input.part_id)[2] + 1] < 2

(***************************************************************************)
(* Compressing one block and decoding what was stored                      *)
(***************************************************************************)
\* BC7Settings::opaque_ultra_fast()
opaque_ultra_fast ==
    [channels |-> 3,
     mode_selection |-> <<0, 0, 0, 1>>,
     skip_mode2 |-> 1,
     fast_skip_threshold_mode1 |-> 3,
     fast_skip_threshold_mode3 |-> 1,
     fast_skip_threshold_mode7 |-> 0,
     mode45_channel0 |-> 0,
     refine_iterations_channel |-> 0,
     refine_iterations |-> <<2, 2, 2, 1, 2, 2, 1, 0>>]

\* BC7Settings::alpha_ultrafast()
alpha_ultrafast ==
    [channels |-> 4,
     mode_selection |-> <<0, 0, 1, 1>>,
     skip_mode2 |-> 1,
     fast_skip_threshold_mode1 |-> 0,
     fast_skip_threshold_mode3 |-> 0,
     fast_skip_threshold_mode7 |-> 4,
     mode45_channel0 |-> 3,
     refine_iterations_channel |-> 1,
     refine_iterations |-> <<2, 1, 2, 1, 1, 1, 2, 2>>]

\* the bundles of the scenario: the fastest preset without alpha (mode 6
\* alone) and the fastest with alpha (modes 4, 5 and 6)
Bundles == {opaque_ultra_fast, alpha_ultrafast}

OpaqueColours ==
    {<<0, 0, 0, 255>>, <<255, 255, 255, 255>>, <<10, 20, 30, 255>>,
     <<1, 2, 3, 255>>, <<254, 1, 128, 255>>, <<128, 64, 32, 255>>,
     <<255, 0, 0, 255>>, <<7, 7, 7, 255>>, <<200, 100, 50, 255>>,
     <<0, 255, 1, 255>>}

AlphaColours ==
    {<<0, 0, 0, 0>>, <<1, 2, 3, 4>>, <<7, 7, 7, 7>>, <<128, 64, 32, 200>>,
     <<255, 255, 255, 0>>, <<254, 255, 0, 1>>, <<10, 20, 30, 128>>,
     <<0, 0, 0, 254>>, <<90, 91, 92, 93>>, <<255, 0, 255, 127>>}

\* the pixels of a 4x4 image of one colour, interleaved
UniformPixels(colour) == [i \in 1..64 |-> colour[((i - 1) % 4) + 1]]

\* the pixels of a 4x4 image whose texel k (0..15) has the colour
\* first + k * step, interleaved
RampPixels(first, step) ==
    [i \in 1..64 |-> first[((i - 1) % 4) + 1]
                     + ((i - 1) \div 4) * step[((i - 1) % 4) + 1]]

\* the pixels of a 4x4 image of one colour but for texel k, interleaved
OnePixel(colour, k, other) ==
    [i \in 1..64 |-> IF (i - 1) \div 4 = k THEN other[((i - 1) % 4) + 1]
                     ELSE colour[((i - 1) % 4) + 1]]

\* 4x4 images of more than one colour: grey, red and alpha ramps, one texel
\* that differs, and two colours side by side
OpaquePatterns ==
    {RampPixels(<<0, 0, 0, 255>>, <<17, 17, 17, 0>>),
     RampPixels(<<0, 100, 100, 255>>, <<10, 0, 0, 0>>),
     RampPixels(<<240, 16, 128, 255>>, <<-16, 8, 1, 0>>),
     OnePixel(<<10, 20, 30, 255>>, 5, <<11, 20, 30, 255>>),
     OnePixel(<<0, 0, 0, 255>>, 15, <<255, 255, 255, 255>>),
     [i \in 1..64 |-> IF ((i - 1) \div 4) % 4 < 2
                      THEN <<200, 100, 50, 255>>[((i - 1) % 4) + 1]
                      ELSE <<20, 40, 250, 255>>[((i - 1) % 4) + 1]]}

AlphaPatterns ==
    {RampPixels(<<0, 0, 0, 0>>, <<17, 17, 17, 17>>),
     RampPixels(<<90, 91, 92, 255>>, <<0, 0, 0, -17>>),
     RampPixels(<<240, 16, 128, 7>>, <<-16, 8, 1, 3>>),
     OnePixel(<<1, 2, 3, 4>>, 0, <<0, 0, 0, 0>>),
     OnePixel(<<10, 20, 30, 255>>, 5, <<10, 20, 30, 0>>),
     [i \in 1..64 |-> IF ((i - 1) \div 4) % 4 < 2
                      THEN <<200, 100, 50, 255>>[((i - 1) % 4) + 1]
                      ELSE <<20, 40, 250, 64>>[((i - 1) % 4) + 1]]}

\* the 4x4 images a bundle is given: without alpha the opaque ones, with
\* alpha all of them
Images(channels) ==
    {UniformPixels(colour) : colour \in OpaqueColours} \cup OpaquePatterns
    \cup (IF channels = 3 THEN {}
          ELSE {UniformPixels(colour) : colour \in AlphaColours}
               \cup AlphaPatterns)

\* pixel buffers that end before the last texel of the block, or within it
ShortImages ==
    {SubSeq(UniformPixels(<<10, 20, 30, 255>>), 1, n) : n \in {0, 33, 60, 63}}

\* the state of a new BlockCompressorBC7 beside the pixels of one 4x4 image,
\* or beside a buffer too short for one
InitEnc ==
    /\ pc = "pixels"
    /\ settings \in Bundles
    /\ rgba_data \in Images(settings.channels) \cup ShortImages
    /\ block = Const(64, 0)
    /\ data = ZeroData
    /\ pos = 0
    /\ best_err = INFINITY
    /\ opaque_err = 0
    /\ bytes = <<>>
    /\ dest0 = Const(64, 170)
    /\ dest = dest0
    /\ destination_pitch = 16
    /\ outcome = "none"
    /\ BitsIdle
    /\ PackIdle
    /\ call = <<>>
    /\ blocks_buffer = <<>>
    /\ TilesIdle
    /\ ModesIdle
    /\ QuantIdle
    /\ TablesIdle /\ QueueIdle
    /\ GpuIdle

\* load_block_interleaved_rgba(rgba_data, 0, 0, stride), which panics at the
\* first pixel past the end of rgba_data
LoadBlock ==
    /\ pc = "pixels"
    /\ \E blk \in {load_block_interleaved_rgba(rgba_data, 0, 0,
                                                destination_pitch)} :
          /\ block' = IF blk = <<>>
                      THEN load_block_until_panic(block, rgba_data, 0, 0,
                                                  destination_pitch)
                      ELSE blk
          /\ pc' = IF blk = <<>> THEN "panicked" ELSE "loaded"
          /\ outcome' = IF blk = <<>> THEN "panic" ELSE outcome
    /\ UNCHANGED <<dataVars, bytes, dest0, dest, destination_pitch, settings,
                   best_err, opaque_err, rgba_data, notEnc>>

\* compute_opaque_err
ComputeOpaqueErr ==
    /\ pc = "loaded"
    /\ opaque_err' = compute_opaque_err(block, settings.channels)
    /\ pc' = "measured"
    /\ UNCHANGED <<dataVars, bytes, destVars, settings, block, best_err,
                   rgba_data, notEnc>>

\* compress_block_bc7_core
CompressBlock ==
    /\ pc = "measured"
    /\ \E r \in {compress_block_bc7_core(
                      block, settings, opaque_err,
                      [best_err |-> best_err, data |-> data])} :
          /\ best_err' = r.best_err /\ data' = r.data
          /\ pc' = IF r.panicked THEN "panicked" ELSE "compressed"
          /\ outcome' = IF r.panicked THEN "panic" ELSE outcome
    /\ UNCHANGED <<pos, bytes, dest0, dest, destination_pitch, settings, block,
                   opaque_err, rgba_data, notEnc>>

\* store_data into a buffer of one block
StoreBlock ==
    /\ pc = "compressed"
    /\ bytes' = store_data(data)
    /\ pc' = "kept"
    /\ UNCHANGED <<dataVars, destVars, encVars, rgba_data, notEnc>>

\* decode_block_bc7 on the stored block
DecodeStored ==
    /\ pc = "kept"
    /\ LET r == decode_block_bc7(bytes, dest, destination_pitch)
       IN /\ dest' = r.out
          /\ outcome' = IF r.panicked THEN "panic" ELSE "returned"
    /\ pc' = "restored"
    /\ UNCHANGED <<dataVars, bytes, dest0, destination_pitch, encVars,
                   rgba_data, notEnc>>

NextEnc ==
    \/ LoadBlock
    \/ ComputeOpaqueErr
    \/ CompressBlock
    \/ StoreBlock
    \/ DecodeStored

SpecEnc == InitEnc /\ [][NextEnc]_vars

\* the sum over the 16 texels and 4 channels of the squared difference
\* between the source pixels and the decoded pixels
SquaredError(source, decoded) ==
    SeqSum([i \in 1..64 |-> (source[i] - decoded[i]) * (source[i] - decoded[i])])

\* C10: once a block has been compressed, stored and decoded, the sum of
\* squared per-channel differences between the source texels and the
\* decoded texels is at most the encoder's final best_err.
C10_ErrorWithinBestErr ==
    pc = "restored" =>
        ~F32Lt(best_err, F32FromInt(SquaredError(rgba_data, dest)))

\* best_err after compress_block_bc7_core on a new BlockCompressorBC7
FinalBestErr(blk, st) ==
    compress_block_bc7_core(
        blk, st, compute_opaque_err(blk, st.channels),
        [best_err |-> INFINITY, data |-> ZeroData]).best_err

\* the bundle st with the refinement count of mode 6 lowered to r: the same
\* modes are enabled, and no count or breadth is larger than in st
WithRefine6(st, r) == [st EXCEPT !.refine_iterations[7] = r]

\* C11: for a fixed block and two bundles that enable the same modes, the
\* second with search breadths and refinement counts at least as large as
\* the first, the final best error with the second bundle is at most the
\* final best error with the first.
C11_SlowNoWorseThanFast ==
    pc = "compressed" =>
        \A r \in 0..settings.refine_iterations[7] :
            ~F32Lt(FinalBestErr(block, WithRefine6(settings, r)), best_err)

\* C19 as stated, for mode 6: after any number of refinement iterations up to
\* the configured one, the error the search of the mode tracks is not
\* greater than its error before refinement.
C19_RefinementNeverWorse ==
    pc = "compressed" =>
        LET unrefined == Mode6Search(block, WithRefine6(settings, 0))
        IN \A n \in 1..settings.refine_iterations[7] :
              ~F32Lt(unrefined.err,
                     Refine6(n, block, settings.channels, unrefined).err)

(***************************************************************************)
(* Calling compress_rgba8 and decompress_blocks_as_rgba8                   *)
(***************************************************************************)
Widths == {4, 6, 8}

Heights == {4, 6}

\* the colours of the blocks of an image, by number of channels in use
Palettes(channels) ==
    IF channels = 3
    THEN {<< <<0, 0, 0, 255>>, <<255, 255, 255, 255>>,
             <<10, 20, 30, 255>>, <<128, 64, 32, 255>> >>,
          << <<200, 100, 50, 255>>, <<0, 0, 0, 255>>,
             <<1, 2, 3, 255>>, <<254, 1, 128, 255>> >>}
    ELSE {<< <<1, 2, 3, 4>>, <<0, 0, 0, 0>>,
             <<128, 64, 32, 200>>, <<255, 255, 255, 255>> >>,
          << <<7, 7, 7, 7>>, <<254, 255, 0, 1>>,
             <<0, 0, 0, 255>>, <<90, 91, 92, 93>> >>}

\* a width x height image, rows of width * 4 bytes: when the blocks tile the
\* image, block n has colour n of the palette and its texel (1, 1) the
\* colour after it; the whole image has the first colour when they do not
Image(width, height, palette) ==
    [i \in 1..(width * height * 4) |->
        LET x == ((i - 1) \div 4) % width
            y == (i - 1) \div (width * 4)
            n == IF width % 4 = 0 /\ height % 4 = 0
                 THEN (y \div 4) * (width \div 4) + (x \div 4)
                      + (IF x % 4 = 1 /\ y % 4 = 1 THEN 1 ELSE 0)
                 ELSE 0
        IN palette[(n % Len(palette)) + 1][((i - 1) % 4) + 1]]

\* the invalid block: no mode bit among its first eight bits
ZeroBlock == Const(16, 0)

BlockPalettes == {<<Fixture0, Fixture1, ZeroBlock>>, <<Fixture1, ZeroBlock, Fixture0>>}

\* n bytes of blocks, taken in turn from the palette
Blocks(n, palette) ==
    [i \in 1..n |-> palette[(((i - 1) \div 16) % Len(palette)) + 1][((i - 1) % 16) + 1]]

\* a call of compress_rgba8: the buffer is 16 or 1 bytes short of
\* blocks_byte_size, exact, or 16 bytes longer; the pixels are all there or
\* the last one is missing
InitCompress ==
    /\ settings \in Bundles
    /\ \E width \in Widths, height \in Heights, cut \in {0, 4},
          extra \in {-16, -1, 0, 16}, palette \in Palettes(settings.channels) :
          /\ call = [op |-> "compress", width |-> width, height |-> height,
                     stride |-> width * 4, palette |-> palette, cut |-> cut]
          /\ rgba_data = SubSeq(Image(width, height, palette), 1,
                                width * height * 4 - cut)
          /\ blocks_buffer = Const(blocks_byte_size(width, height) + extra, 170)
    /\ dest0 = blocks_buffer

\* the heights of the images decompressed: two rows of blocks as well
DecompressHeights == Heights \cup {8}

\* a call of decompress_blocks_as_rgba8: the source is one block short of
\* blocks_byte_size, exact, or one block longer; the destination one pixel
\* short of width * height * 4, exact, or one pixel longer.  The variant's
\* settings are not read.
InitDecompress ==
    /\ settings = opaque_ultra_fast
    /\ \E width \in Widths, height \in DecompressHeights,
          extra \in {-16, 0, 16}, more \in {-4, 0, 4},
          palette \in BlockPalettes :
          /\ call = [op |-> "decompress", width |-> width, height |-> height,
                     stride |-> width * 4, palette |-> palette, cut |-> 0]
          /\ blocks_buffer = Blocks(blocks_byte_size(width, height) + extra,
                                    palette)
          /\ rgba_data = Const(width * height * 4 + more, 170)
    /\ dest0 = rgba_data

InitApi ==
    /\ pc = "call"
    /\ InitCompress \/ InitDecompress
    /\ outcome = "none"
    /\ dest = <<>>
    /\ destination_pitch = 0
    /\ bytes = <<>>
    /\ block = <<>>
    /\ best_err = 0
    /\ opaque_err = 0
    /\ DataIdle
    /\ BitsIdle
    /\ PackIdle
    /\ TilesIdle
    /\ ModesIdle
    /\ QuantIdle
    /\ TablesIdle /\ QueueIdle
    /\ GpuIdle

\* compress_rgba8
CompressRgba8 ==
    /\ pc = "call"
    /\ call.op = "compress"
    /\ \E r \in {compress_rgba8(rgba_data, blocks_buffer, call.width,
                               call.height, call.stride, settings)} :
           blocks_buffer' = r.out /\ outcome' = r.outcome
    /\ pc' = "done"
    /\ UNCHANGED <<call, rgba_data, settings, dest0, notApi>>

\* decompress_blocks_as_rgba8
DecompressBlocksAsRgba8 ==
    /\ pc = "call"
    /\ call.op = "decompress"
    /\ \E r \in {decompress_blocks_as_rgba8(call.width, call.height,
                                           blocks_buffer, rgba_data)} :
           rgba_data' = r.out /\ outcome' = r.outcome
    /\ pc' = "done"
    /\ UNCHANGED <<call, blocks_buffer, settings, dest0, notApi>>

NextApi == CompressRgba8 \/ DecompressBlocksAsRgba8

SpecApi == InitApi /\ [][NextApi]_vars

\* the pixels handed to the compress call in progress
SourcePixels ==
    SubSeq(Image(call.width, call.height, call.palette), 1,
           call.width * call.height * 4 - call.cut)

\* the 16 bytes the encoder stores for block (xx, yy) of the source pixels
EncodedBlock(xx, yy) ==
    The({store_data(compress_block_bc7_core(
             blk, settings, compute_opaque_err(blk, settings.channels),
             [best_err |-> INFINITY, data |-> ZeroData]).data) :
         blk \in {load_block_interleaved_rgba(SourcePixels, xx, yy,
                                              call.stride)}})

\* the first n blocks of the blocks buffer are the encoded blocks of the
\* source, in raster order
BlocksWritten(n) ==
    \A i \in 0..(n - 1) :
        SubSeq(blocks_buffer, 16 * i + 1, 16 * i + 16) =
            EncodedBlock(i % (call.width \div 4), i \div (call.width \div 4))

\* the bytes of the blocks buffer from n + 1 on are as they were
RestUntouched(n) ==
    /\ Len(blocks_buffer) = Len(dest0)
    /\ \A b \in (n + 1)..Len(dest0) : blocks_buffer[b] = dest0[b]

\* C6: a compress call whose width or height is not a multiple of 4, or
\* whose destination is shorter than blocks_byte_size(width, height), ends
\* in a failed assertion with the destination as it was; a call that meets
\* the three conditions fails no assertion, leaves the source pixels and
\* the bytes past the blocks as they were, and when it returns the
\* destination holds the encoded blocks.
C6_CompressPreconditions ==
    (pc = "done" /\ call.op = "compress") =>
        LET required == blocks_byte_size(call.width, call.height)
        IN IF \/ call.width % 4 # 0
              \/ call.height % 4 # 0
              \/ Len(dest0) < required
           THEN outcome = "assert" /\ blocks_buffer = dest0
           ELSE /\ outcome # "assert"
                /\ rgba_data = SourcePixels
                /\ RestUntouched(required)
                /\ outcome = "returned" => BlocksWritten(required \div 16)

\* a compress call for a 6 x 4 image with a destination of two blocks or
\* more has failed an assertion
C6_Witness ==
    /\ pc = "done"
    /\ call.op = "compress"
    /\ call.width = 6
    /\ call.height = 4
    /\ Len(dest0) >= 32
    /\ outcome = "assert"

\* C7 as stated: a compress call whose destination is not exactly
\* blocks_byte_size(width, height) bytes long ends in a failed assertion.
C7_ExactLengthRequired ==
    (/\ pc = "done"
     /\ call.op = "compress"
     /\ Len(dest0) # blocks_byte_size(call.width, call.height))
        => outcome = "assert"

\* C7 amended: for a width and height that are multiples of 4, a compress
\* call fails its assertion exactly when the destination is shorter than
\* blocks_byte_size(width, height); a longer destination is accepted, its
\* first blocks_byte_size bytes get the blocks and the rest stays as it
\* was.
C7_ShorterRejectedLongerAccepted ==
    (/\ pc = "done"
     /\ call.op = "compress"
     /\ call.width % 4 = 0
     /\ call.height % 4 = 0) =>
        LET required == blocks_byte_size(call.width, call.height)
        IN /\ outcome = "assert" <=> Len(dest0) < required
           /\ (Len(dest0) > required /\ call.cut = 0) =>
                 /\ outcome = "returned"
                 /\ BlocksWritten(required \div 16)
                 /\ RestUntouched(required)

\* a compress call for an 8 x 4 image with a destination of three blocks
\* has returned with its first two blocks changed
C7_Witness ==
    /\ pc = "done"
    /\ call.op = "compress"
    /\ call.width = 8
    /\ call.height = 4
    /\ Len(dest0) = 48
    /\ outcome = "returned"
    /\ blocks_buffer # dest0

\* C8: a decompress call whose source is not exactly
\* blocks_byte_size(width, height) bytes long, or whose destination is not
\* exactly width * height * 4 bytes long, ends in a failed assertion with
\* the destination pixels as they were; a call with both lengths exact
\* fails no assertion.
C8_DecompressExactLengths ==
    (pc = "done" /\ call.op = "decompress") =>
        IF \/ Len(blocks_buffer) # blocks_byte_size(call.width, call.height)
           \/ Len(dest0) # call.width * call.height * 4
        THEN outcome = "assert" /\ rgba_data = dest0
        ELSE outcome # "assert"

\* a decompress call for a 4 x 4 image with an exact source and a
\* destination one pixel too long has failed an assertion
C8_Witness ==
    /\ pc = "done"
    /\ call.op = "decompress"
    /\ call.width = 4
    /\ call.height = 4
    /\ Len(blocks_buffer) = 16
    /\ Len(dest0) = 68
    /\ outcome = "assert"

\* the byte offsets of the destination that the decoding of block n stores
\* to: output_offset of decompress_rgba8 plus i * pitch + j * 4 (+ 0..3) of
\* decode_block_bc7, for the texel rows i and columns j
StoredBy(n, width) ==
    LET blocks_x == (width + 3) \div 4
        output_row_pitch == width * 4
        output_offset == (n \div blocks_x) * 4 * output_row_pitch
                         + (n % blocks_x) * 16
    IN {output_offset + i * output_row_pitch + j * 4 + c :
           i \in 0..3, j \in 0..3, c \in 0..3}

\* C27: after a decompress call with width and height multiples of 4 and
\* both buffers of the exact size, the call has returned, every destination
\* byte is stored to by exactly one block, and pixel (x, y) is texel (row y
\* mod 4, column x mod 4) of the block at byte offset ((y / 4) * (width / 4)
\* + x / 4) * 16 of the source.
C27_DecompressCoversEveryPixel ==
    (/\ pc = "done" /\ call.op = "decompress"
     /\ call.width % 4 = 0 /\ call.height % 4 = 0
     /\ Len(blocks_buffer) = blocks_byte_size(call.width, call.height)
     /\ Len(dest0) = call.width * call.height * 4) =>
        /\ outcome = "returned"
        /\ Len(rgba_data) = call.width * call.height * 4
        /\ \A b \in 0..(call.width * call.height * 4 - 1) :
              Cardinality({n \in 0..((call.width \div 4) * (call.height \div 4) - 1) :
                              b \in StoredBy(n, call.width)}) = 1
        /\ \A x \in 0..(call.width - 1), y \in 0..(call.height - 1) :
              LET offset == ((y \div 4) * (call.width \div 4) + x \div 4) * 16
                  texels == DecodeTexels(SubSeq(blocks_buffer, offset + 1,
                                                offset + 16))
              IN SubSeq(rgba_data, (y * call.width + x) * 4 + 1,
                        (y * call.width + x) * 4 + 4)
                 = texels[(y % 4) * 4 + (x % 4) + 1]

\* C27 witness: an 8 x 8 image of four blocks, the third of them the invalid
\* block, decompressed over a destination of 170s: pixel (5, 2) is texel
\* (2, 1) of the second block and pixel (0, 4) is zero.
C27_Witness ==
    /\ pc = "done" /\ call.op = "decompress"
    /\ call.width = 8 /\ call.height = 8
    /\ Len(blocks_buffer) = 64 /\ Len(dest0) = 256
    /\ SubSeq(blocks_buffer, 33, 48) = ZeroBlock
    /\ outcome = "returned"
    /\ SubSeq(rgba_data, (2 * 8 + 5) * 4 + 1, (2 * 8 + 5) * 4 + 4)
       = DecodeTexels(SubSeq(blocks_buffer, 17, 32))[10]
    /\ SubSeq(rgba_data, (4 * 8) * 4 + 1, (4 * 8) * 4 + 4) = <<0, 0, 0, 0>>
    /\ rgba_data # dest0

\* C9: a decompress call whose width or height is not a multiple of 4, with
\* a source of blocks_byte_size(width, height) bytes and a destination of
\* width * height * 4 bytes, ends in a failed assertion with the destination
\* pixels as they were.
C9_NonMultipleRejectedUpFront ==
    (/\ pc = "done"
     /\ call.op = "decompress"
     /\ call.width % 4 # 0 \/ call.height % 4 # 0
     /\ Len(blocks_buffer) = blocks_byte_size(call.width, call.height)
     /\ Len(dest0) = call.width * call.height * 4)
        => outcome = "assert" /\ rgba_data = dest0

(***************************************************************************)
(* The blocks of compress_bc7, each with its own BlockCompressorBC7, taken *)
(* in any order and interleaved                                            *)
(***************************************************************************)
\* (width, height) of the images: two blocks in a row and two in a column,
\* and two rows of two for the bundles without alpha
TileSizes(channels) ==
    {<<8, 4>>, <<4, 8>>} \cup (IF channels = 3 THEN {<<8, 8>>} ELSE {})

\* the bytes missing at the end of the pixel buffer: none, and for the
\* bundles without alpha also the last pixel or the whole second block of
\* the image of two blocks in a column
TileCuts(channels) == IF channels = 3 THEN {0, 4, 64} ELSE {0}

\* the colours of the four blocks, by number of channels in use
TilePalette(channels) ==
    IF channels = 3
    THEN << <<200, 100, 50, 255>>, <<0, 0, 0, 255>>,
            <<1, 2, 3, 255>>, <<254, 1, 128, 255>> >>
    ELSE << <<1, 2, 3, 4>>, <<0, 0, 0, 0>>,
            <<128, 64, 32, 200>>, <<255, 255, 255, 255>> >>

\* BlockCompressorBC7::new(settings), before its block is loaded
NewCompressor ==
    [pc |-> "new", block |-> Const(64, 0), opaque_err |-> 0,
     best_err |-> INFINITY, data |-> ZeroData]

\* compress_bc7 is about to run on an image whose blocks differ in colour
InitTiles ==
    /\ pc = "tiles"
    /\ settings \in Bundles
    /\ \E size \in TileSizes(settings.channels),
          cut \in TileCuts(settings.channels) :
          /\ cut # 0 => size = <<4, 8>>
          /\ call = [op |-> "compress", width |-> size[1], height |-> size[2],
                     stride |-> size[1] * 4,
                     palette |-> TilePalette(settings.channels), cut |-> cut]
          /\ rgba_data = SubSeq(Image(size[1], size[2],
                                      TilePalette(settings.channels)),
                                1, size[1] * size[2] * 4 - cut)
          /\ blocks_buffer = Const(blocks_byte_size(size[1], size[2]), 170)
          /\ compressors =
                 [i \in 1..((size[1] \div 4) * (size[2] \div 4)) |-> NewCompressor]
    /\ dest0 = blocks_buffer
    /\ outcome = "none"
    /\ dest = <<>>
    /\ destination_pitch = 0
    /\ bytes = <<>>
    /\ block = <<>>
    /\ best_err = 0
    /\ opaque_err = 0
    /\ DataIdle
    /\ BitsIdle
    /\ PackIdle
    /\ GpuIdle
    /\ ModesIdle
    /\ QuantIdle
    /\ TablesIdle /\ QueueIdle

\* the column and the row of the i-th block of the image, in raster order
TileX(i) == (i - 1) % ((call.width + 3) \div 4)

TileY(i) == (i - 1) \div ((call.width + 3) \div 4)

\* the byte, row and channel a position k of a 4x4 RGBA image stands for
TexelX(k) == ((k - 1) \div 4) % 4

TexelY(k) == (k - 1) \div 16

TexelChannel(k) == (k - 1) % 4

\* block_compressor.load_block_interleaved_rgba(rgba_data, xx, yy, stride),
\* which panics at the first pixel past the end of rgba_data
LoadTile ==
    /\ pc = "tiles"
    /\ \E i \in 1..Len(compressors) :
          /\ compressors[i].pc = "new"
          /\ \E blk \in {load_block_interleaved_rgba(
                              rgba_data, TileX(i), TileY(i), call.stride)} :
                 /\ compressors' =
                        [compressors EXCEPT
                            ![i].block =
                                IF blk = <<>>
                                THEN load_block_until_panic(
                                         compressors[i].block, rgba_data,
                                         TileX(i), TileY(i), call.stride)
                                ELSE blk,
                            ![i].pc = IF blk = <<>> THEN "panicked"
                                      ELSE "loaded"]
                 /\ pc' = IF blk = <<>> THEN "panicked" ELSE pc
                 /\ outcome' = IF blk = <<>> THEN "panic" ELSE outcome
    /\ UNCHANGED <<call, rgba_data, blocks_buffer, settings, dest0, notTiles>>

\* block_compressor.compute_opaque_err()
MeasureTile ==
    /\ pc = "tiles"
    /\ \E i \in 1..Len(compressors) :
          /\ compressors[i].pc = "loaded"
          /\ compressors' =
                 [compressors EXCEPT
                     ![i].opaque_err = compute_opaque_err(compressors[i].block,
                                                          settings.channels),
                     ![i].pc = "measured"]
    /\ UNCHANGED <<pc, call, rgba_data, blocks_buffer, settings, dest0,
                   outcome, notTiles>>

\* block_compressor.compress_block_bc7_core()
CompressTile ==
    /\ pc = "tiles"
    /\ \E i \in 1..Len(compressors) :
          /\ compressors[i].pc = "measured"
          /\ \E r \in {compress_block_bc7_core(
                            compressors[i].block, settings,
                            compressors[i].opaque_err,
                            [best_err |-> compressors[i].best_err,
                             data |-> compressors[i].data])} :
                 /\ compressors' =
                        [compressors EXCEPT
                            ![i].best_err = r.best_err,
                            ![i].data = r.data,
                            ![i].pc = IF r.panicked THEN "panicked"
                                      ELSE "compressed"]
                 /\ pc' = IF r.panicked THEN "panicked" ELSE pc
                 /\ outcome' = IF r.panicked THEN "panic" ELSE outcome
    /\ UNCHANGED <<call, rgba_data, blocks_buffer, settings, dest0, notTiles>>

\* block_compressor.store_data(blocks_buffer, block_width, xx, yy)
StoreTile ==
    /\ pc = "tiles"
    /\ \E i \in 1..Len(compressors) :
          /\ compressors[i].pc = "compressed"
          /\ \E w \in {store_data_at(compressors[i].data, blocks_buffer,
                                     (call.width + 3) \div 4, TileX(i),
                                     TileY(i))} :
                 /\ blocks_buffer' = w.out
                 /\ outcome' = IF w.panicked THEN "panic" ELSE outcome
          /\ compressors' = [compressors EXCEPT ![i].pc = "stored"]
    /\ UNCHANGED <<pc, call, rgba_data, settings, dest0, notTiles>>

NextTiles == LoadTile \/ MeasureTile \/ CompressTile \/ StoreTile

SpecTiles == InitTiles /\ [][NextTiles]_vars

\* the 16 texels of the i-th 4x4 tile of the image, as a 4x4 image of its own
TilePixels(i) ==
    [k \in 1..64 |->
        rgba_data[(TileY(i) * 4 + TexelY(k)) * call.stride
                  + (TileX(i) * 4 + TexelX(k)) * 4 + TexelChannel(k) + 1]]

\* the 16 bytes a compressor stores when it is handed the i-th tile alone
OwnEncoding(i) ==
    The({store_data(compress_block_bc7_core(
             blk, settings, compute_opaque_err(blk, settings.channels),
             [best_err |-> INFINITY, data |-> ZeroData]).data) :
         blk \in {load_block_interleaved_rgba(TilePixels(i), 0, 0, 16)}})

\* C12: whatever the order and interleaving of the blocks' steps, the
\* compressor of block (col, row) holds the texels of its own 4x4 tile
\* alone, the destination bytes [(row*blockWidth+col)*16, +16) hold the
\* encoding of that tile once the block is stored and their first value
\* until then, and when every block is stored the destination equals the
\* buffer compress_bc7 leaves when it takes the blocks in raster order.
C12_BlocksIndependent ==
    pc = "tiles" =>
        /\ Len(blocks_buffer) = Len(dest0)
        /\ \A i \in 1..Len(compressors) :
              /\ compressors[i].pc # "new" =>
                     compressors[i].block =
                         load_block_interleaved_rgba(TilePixels(i), 0, 0, 16)
              /\ SubSeq(blocks_buffer, 16 * i - 15, 16 * i) =
                     IF compressors[i].pc = "stored" THEN OwnEncoding(i)
                     ELSE SubSeq(dest0, 16 * i - 15, 16 * i)
        /\ (\A i \in 1..Len(compressors) : compressors[i].pc = "stored") =>
               blocks_buffer =
                   compress_bc7(rgba_data, dest0, (call.width + 3) \div 4,
                                (call.height + 3) \div 4, call.stride,
                                settings).out

\* C12 witness: in an image of two rows of two blocks of different colours,
\* the last block is stored while the first is loaded and not yet
\* compressed, the second is untouched and the third is compressed.
C12_Witness ==
    /\ pc = "tiles"
    /\ Len(compressors) = 4
    /\ compressors[4].pc = "stored"
    /\ compressors[3].pc = "compressed"
    /\ compressors[2].pc = "new"
    /\ compressors[1].pc = "loaded"
    /\ SubSeq(blocks_buffer, 49, 64) # SubSeq(dest0, 49, 64)
    /\ TilePixels(4) # TilePixels(1)

(***************************************************************************)
(* GpuBlockCompressor: queueing tasks and dispatching them                 *)
(***************************************************************************)
\* size_of::<Uniforms>(): four u32 fields
UniformsSize == 16

\* size_of::<BC7Settings>(): nineteen u32 fields
BC7SettingsSize == 76

\* the slots GpuBlockCompressor::new gives each of the two buffers
InitialSlots == 16

\* usize::div_ceil
div_ceil(a, b) == (a + b - 1) \div b

\* size.div_ceil(alignment) * alignment
AlignedSize(size, alignment) == div_ceil(size, alignment) * alignment

\* device.create_buffer: a buffer of the given size whose slots hold zeros
create_buffer(size) == [size |-> size, slots |-> <<>>]

\* the limits of the devices of the scenario
DeviceLimits ==
    {[min_uniform_buffer_offset_alignment |-> 256,
      min_storage_buffer_offset_alignment |-> 256],
     [min_uniform_buffer_offset_alignment |-> 64,
      min_storage_buffer_offset_alignment |-> 32]}

\* the most tasks queued at once, one more than the slots of a new buffer
MaxTasks == 17

\* the tasks of a batch that differ from the plain one come first
MaxVaried == 2

\* Option::unwrap_or(0), with None as the empty sequence
unwrap_or_0(opt) == IF opt = <<>> THEN 0 ELSE opt[1]

\* a task on one 4x4 block, with a buffer of exactly one block
PlainTask ==
    [variant |-> opaque_ultra_fast, texture_view |-> "plain", width |-> 4,
     height |-> 4, buffer |-> [label |-> "plain", size |-> 16, storage |-> TRUE],
     texture_y_offset |-> <<>>, blocks_offset |-> <<>>]

\* a task on 72x40 texels from row 4 on, its blocks placed 32 bytes into a
\* buffer of exactly the size needed
WideTask ==
    [variant |-> alpha_ultrafast, texture_view |-> "wide", width |-> 72,
     height |-> 40,
     buffer |-> [label |-> "wide", size |-> 32 + 18 * 10 * 16, storage |-> TRUE],
     texture_y_offset |-> <<4>>, blocks_offset |-> <<32>>]

\* the arguments that meet every precondition of add_compression_task
AcceptedArguments == {PlainTask, WideTask}

\* arguments that each miss one precondition
RejectedArguments ==
    {[WideTask EXCEPT !.width = 70],
     [WideTask EXCEPT !.height = 42],
     [WideTask EXCEPT !.texture_y_offset = <<2>>],
     [PlainTask EXCEPT !.buffer.storage = FALSE],
     [WideTask EXCEPT !.buffer.size = 32 + 18 * 10 * 16 - 1],
     [PlainTask EXCEPT !.blocks_offset = <<4>>]}

\* add_compression_task without the check of the destination size
add_compression_task_nosize(tasks, args) ==
    IF args.height % 4 # 0 \/ args.width % 4 # 0
    THEN [task |-> tasks, outcome |-> "assert"]
    ELSE IF args.texture_y_offset # <<>> /\ args.texture_y_offset[1] % 4 # 0
    THEN [task |-> tasks, outcome |-> "assert"]
    ELSE IF ~args.buffer.storage
    THEN [task |-> tasks, outcome |-> "assert"]
    ELSE [task |-> Append(tasks,
                     [variant |-> args.variant, width |-> args.width,
                      height |-> args.height, uniform_offset |-> 0,
                      setting_offset |-> 0,
                      texture_y_offset |-> unwrap_or_0(args.texture_y_offset),
                      buffer_offset |-> unwrap_or_0(args.blocks_offset),
                      texture_view |-> args.texture_view,
                      buffer |-> args.buffer]),
          outcome |-> "returned"]

\* GpuBlockCompressor::add_compression_task on the queued tasks: the task
\* list it leaves and how it ended
add_compression_task(tasks, args) ==
    IF args.height % 4 # 0 \/ args.width % 4 # 0
    THEN [task |-> tasks, outcome |-> "assert"]
    ELSE IF args.texture_y_offset # <<>> /\ args.texture_y_offset[1] % 4 # 0
    THEN [task |-> tasks, outcome |-> "assert"]
    ELSE IF ~args.buffer.storage
    THEN [task |-> tasks, outcome |-> "assert"]
    ELSE IF args.buffer.size < unwrap_or_0(args.blocks_offset)
                                 + blocks_byte_size(args.width, args.height)
    THEN [task |-> tasks, outcome |-> "assert"]
    ELSE [task |-> Append(tasks,
                     [variant |-> args.variant, width |-> args.width,
                      height |-> args.height, uniform_offset |-> 0,
                      setting_offset |-> 0,
                      texture_y_offset |-> unwrap_or_0(args.texture_y_offset),
                      buffer_offset |-> unwrap_or_0(args.blocks_offset),
                      texture_view |-> args.texture_view,
                      buffer |-> args.buffer]),
          outcome |-> "returned"]

\* update_buffer_sizes making a buffer of the batch's size every time
update_buffer_size_fit(buffer, aligned_size, count) ==
    create_buffer(aligned_size * count)

\* update_buffer_sizes on one buffer: a new buffer when the slots of the
\* queued tasks need more bytes than the buffer has
update_buffer_size(buffer, aligned_size, count) ==
    IF aligned_size * count > buffer.size
    THEN create_buffer(aligned_size * count)
    ELSE buffer

\* queue.write_buffer_with(buffer, 0, scratch_buffer.len()): the slots of
\* the batch replace the first slots of the buffer
write_slots(buffer, written_slots) ==
    [size |-> buffer.size,
     slots |-> written_slots
               \o SubSeq(buffer.slots, Len(written_slots) + 1, Len(buffer.slots))]

\* the Uniforms that upload builds for a task
UniformsOf(t) ==
    [width |-> t.width, height |-> t.height,
     texture_y_offset |-> t.texture_y_offset,
     blocks_offset |-> t.buffer_offset \div 4]

\* upload: the tasks with their offsets set
upload_tasks(tasks, uniforms_size, bc7_size) ==
    [i \in 1..Len(tasks) |->
        [tasks[i] EXCEPT !.uniform_offset = (i - 1) * uniforms_size,
                         !.setting_offset = (i - 1) * bc7_size]]

\* create_bind_group(task)
create_bind_group(t, uniforms, bc7_settings, uniforms_size, bc7_size) ==
    [texture_view |-> t.texture_view,
     buffer |-> t.buffer,
     uniforms |-> [buffer_size |-> uniforms.size, offset |-> 0,
                   size |-> uniforms_size],
     settings |-> [buffer_size |-> bc7_settings.size, offset |-> 0,
                   size |-> bc7_size]]

\* set_pipeline, set_bind_group and dispatch_workgroups for one task
dispatch_task(t, bind_group) ==
    [bind_group |-> bind_group,
     offsets |-> <<t.uniform_offset, t.setting_offset>>,
     workgroups |-> <<((((t.width + 3) \div 4) + 7) \div 8),
                      ((((t.height + 3) \div 4) + 7) \div 8), 1>>]

\* compress dispatching no task after the first
compress_first_only(tasks, uniforms, bc7_settings, uniforms_size, bc7_size) ==
    LET grown_u == update_buffer_size(uniforms, uniforms_size, Len(tasks))
        grown_s == update_buffer_size(bc7_settings, bc7_size, Len(tasks))
        uploaded == upload_tasks(tasks, uniforms_size, bc7_size)
    IN [task |-> <<>>,
        uniforms_buffer |->
            write_slots(grown_u, [i \in 1..Len(tasks) |-> UniformsOf(uploaded[i])]),
        bc7_settings_buffer |->
            write_slots(grown_s, [i \in 1..Len(tasks) |-> uploaded[i].variant]),
        pass |-> [i \in 1..(IF Len(tasks) > 0 THEN 1 ELSE 0) |->
                    dispatch_task(uploaded[i],
                        create_bind_group(uploaded[i], grown_u, grown_s,
                                          uniforms_size, bc7_size))]]

\* GpuBlockCompressor::compress(pass) on a pass with nothing recorded:
\* update_buffer_sizes, upload, the bind groups, and one dispatch a task
\* while the task list is drained
compress(tasks, uniforms, bc7_settings, uniforms_size, bc7_size) ==
    LET grown_u == update_buffer_size(uniforms, uniforms_size, Len(tasks))
        grown_s == update_buffer_size(bc7_settings, bc7_size, Len(tasks))
        uploaded == upload_tasks(tasks, uniforms_size, bc7_size)
    IN [task |-> <<>>,
        uniforms_buffer |->
            write_slots(grown_u, [i \in 1..Len(tasks) |-> UniformsOf(uploaded[i])]),
        bc7_settings_buffer |->
            write_slots(grown_s, [i \in 1..Len(tasks) |-> uploaded[i].variant]),
        pass |-> [i \in 1..Len(tasks) |->
                    dispatch_task(uploaded[i],
                        create_bind_group(uploaded[i], grown_u, grown_s,
                                          uniforms_size, bc7_size))]]

\* GpuBlockCompressor::new(device, queue)
InitGpu ==
    /\ pc = "gpu"
    /\ device \in DeviceLimits
    /\ uniforms_aligned_size =
           AlignedSize(UniformsSize, device.min_uniform_buffer_offset_alignment)
    /\ bc7_aligned_size =
           AlignedSize(BC7SettingsSize, device.min_storage_buffer_offset_alignment)
    /\ uniforms_buffer = create_buffer(uniforms_aligned_size * InitialSlots)
    /\ bc7_settings_buffer = create_buffer(bc7_aligned_size * InitialSlots)
    /\ task = <<>>
    /\ pass = <<>>
    /\ call = [op |-> "new", args |-> <<>>]
    /\ outcome = "none"
    /\ rgba_data = <<>>
    /\ blocks_buffer = <<>>
    /\ bytes = <<>>
    /\ DataIdle
    /\ BitsIdle
    /\ DestIdle
    /\ PackIdle
    /\ EncIdle
    /\ TilesIdle
    /\ ModesIdle
    /\ QuantIdle
    /\ TablesIdle /\ QueueIdle

\* one call of add_compression_task, once the pass of the batch before has
\* been submitted; the first MaxVaried tasks of a batch take any arguments,
\* the later ones the plain task or rejected arguments
AddCompressionTask ==
    /\ pc = "gpu"
    /\ pass = <<>>
    /\ Len(task) < MaxTasks
    /\ \E args \in AcceptedArguments \cup RejectedArguments :
          /\ Len(task) >= MaxVaried =>
                 args \in {PlainTask} \cup RejectedArguments
          /\ call' = [op |-> "add_compression_task", args |-> args]
          /\ LET ends(r) == task' = r.task /\ outcome' = r.outcome
             IN ends(add_compression_task(task, args))
    /\ UNCHANGED <<pc, uniforms_buffer, bc7_settings_buffer, device,
                   uniforms_aligned_size, bc7_aligned_size, pass, notGpu>>

\* one call of compress, on a new ComputePass
Compress ==
    /\ pc = "gpu"
    /\ LET ends(r) ==
               /\ task' = r.task
               /\ uniforms_buffer' = r.uniforms_buffer
               /\ bc7_settings_buffer' = r.bc7_settings_buffer
               /\ pass' = r.pass
       IN ends(compress(task, uniforms_buffer, bc7_settings_buffer,
                        uniforms_aligned_size, bc7_aligned_size))
    /\ outcome' = "returned"
    /\ call' = [op |-> "compress", args |-> <<>>]
    /\ UNCHANGED <<pc, device, uniforms_aligned_size, bc7_aligned_size, notGpu>>

\* the caller ends the pass and submits its commands
Submit ==
    /\ pc = "gpu"
    /\ pass # <<>>
    /\ pass' = <<>>
    /\ call' = [op |-> "submit", args |-> <<>>]
    /\ UNCHANGED <<pc, outcome, task, uniforms_buffer,
                   bc7_settings_buffer, device, uniforms_aligned_size,
                   bc7_aligned_size, notGpu>>

NextGpu == AddCompressionTask \/ Compress \/ Submit

SpecGpu == InitGpu /\ [][NextGpu]_vars

\* the bytes the blocks of a width x height image take, as the spec of the
\* task preconditions counts them
BlocksNeeded(width, height) ==
    div_ceil(width, 4) * div_ceil(height, 4) * block_byte_size

\* the arguments miss a precondition: width or height not a multiple of 4,
\* a given row offset not a multiple of 4, a destination that is no storage
\* buffer, or a destination smaller than byte offset + blocks_byte_size
MissesPrecondition(args) ==
    \/ args.width % 4 # 0
    \/ args.height % 4 # 0
    \/ args.texture_y_offset # <<>> /\ args.texture_y_offset[1] % 4 # 0
    \/ ~args.buffer.storage
    \/ args.buffer.size <
           (IF args.blocks_offset = <<>> THEN 0 ELSE args.blocks_offset[1])
           + BlocksNeeded(args.width, args.height)

\* C13: a call of add_compression_task whose arguments miss a precondition
\* fails at once and leaves the queued tasks as they were; any other call
\* appends exactly one task, for the given texture, buffer and size, to the
\* tasks queued before; neither records anything on a pass.
C13_RejectsOrAppendsOne ==
    [][(call'.op = "add_compression_task") =>
          /\ pass' = pass
          /\ IF MissesPrecondition(call'.args)
             THEN outcome' = "assert" /\ task' = task
             ELSE /\ outcome' = "returned"
                  /\ Len(task') = Len(task) + 1
                  /\ SubSeq(task', 1, Len(task)) = task
                  /\ task'[Len(task')].buffer = call'.args.buffer
                  /\ task'[Len(task')].texture_view = call'.args.texture_view
                  /\ task'[Len(task')].width = call'.args.width
                  /\ task'[Len(task')].height = call'.args.height]_vars

\* C13 witness: a call whose buffer is one byte short of byte offset +
\* blocks_byte_size has failed while two tasks were queued, the second of
\* them accepted with a buffer of exactly that size.
C13_Witness ==
    /\ pc = "gpu"
    /\ call = [op |-> "add_compression_task",
               args |-> [WideTask EXCEPT !.buffer.size = 32 + 18 * 10 * 16 - 1]]
    /\ outcome = "assert"
    /\ Len(task) = 2
    /\ task[2].buffer.size = 32 + 18 * 10 * 16
    /\ task[2].buffer_offset = 32

\* C14: compress records exactly one dispatch for each queued task, in
\* the order the tasks were added, each bound to its task's texture and
\* buffer and sized ceil(blockWidth/8) x ceil(blockHeight/8) x 1 with
\* blockWidth = width/4 and blockHeight = height/4, and leaves the task
\* list empty; with no task queued it records nothing.
C14_OneDispatchPerTask ==
    [][(call'.op = "compress") =>
          /\ task' = <<>>
          /\ Len(pass') = Len(task)
          /\ \A i \in 1..Len(task) :
                /\ pass'[i].bind_group.texture_view = task[i].texture_view
                /\ pass'[i].bind_group.buffer = task[i].buffer
                /\ pass'[i].workgroups =
                       <<div_ceil(task[i].width \div 4, 8),
                         div_ceil(task[i].height \div 4, 8), 1>>]_vars

\* C14 witness: a batch of the wide task followed by the plain one has been
\* dispatched: 3 x 2 x 1 work-groups for the first, 1 x 1 x 1 for the
\* second, and no task is left.
C14_Witness ==
    /\ pc = "gpu"
    /\ call.op = "compress"
    /\ task = <<>>
    /\ Len(pass) = 2
    /\ pass[1].bind_group.texture_view = "wide"
    /\ pass[1].workgroups = <<3, 2, 1>>
    /\ pass[2].bind_group.texture_view = "plain"
    /\ pass[2].workgroups = <<1, 1, 1>>

\* C15: no call makes the uniforms buffer or the settings buffer smaller;
\* when compress dispatches, each of the two is at least its aligned slot
\* size times the number of tasks of the batch, and the uniform offset of
\* the i-th task (from 0) is i times the aligned slot size, a multiple of
\* the device's minimum uniform offset alignment, with the whole slot
\* inside the uniforms buffer the dispatch is bound to.
C15_BuffersGrowAndSlotsFit ==
    [][/\ uniforms_buffer'.size >= uniforms_buffer.size
       /\ bc7_settings_buffer'.size >= bc7_settings_buffer.size
       /\ (call'.op = "compress") =>
             /\ uniforms_buffer'.size >= uniforms_aligned_size * Len(task)
             /\ bc7_settings_buffer'.size >= bc7_aligned_size * Len(task)
             /\ \A i \in 1..Len(pass') :
                   /\ pass'[i].offsets[1] = (i - 1) * uniforms_aligned_size
                   /\ pass'[i].offsets[1]
                          % device.min_uniform_buffer_offset_alignment = 0
                   /\ pass'[i].bind_group.uniforms.buffer_size
                          = uniforms_buffer'.size
                   /\ pass'[i].offsets[1] + uniforms_aligned_size
                          <= uniforms_buffer'.size]_vars

\* C15 witness: after a batch of 17 tasks made both buffers grow past their
\* 16 slots, a batch of one task has been dispatched and the buffers have
\* kept their 17 slots.
C15_Witness ==
    /\ pc = "gpu"
    /\ call.op = "compress"
    /\ Len(pass) = 1
    /\ uniforms_buffer.size = 17 * uniforms_aligned_size
    /\ bc7_settings_buffer.size = 17 * bc7_aligned_size
    /\ Len(uniforms_buffer.slots) = 17

\* C17: what a call of decode_block_bc7 leaves at the 16 texel positions is
\* what a call with the same 16 bytes leaves there in a destination of
\* zeros: it depends neither on what the destination held (zeros, 170s) nor
\* on the call made before on the same destination.
C17_DecodeDependsOnInputOnly ==
    pc \in {"decoded", "again"} =>
        LET fresh == decode_block_bc7(bytes, Const(64, 0), destination_pitch).out
        IN \A k \in 0..15 :
              LET offset == (k \div 4) * destination_pitch + (k % 4) * 4
              IN TexelBytes(k) = SubSeq(fresh, offset + 1, offset + 4)

\* C17 witness: the all-zero block decoded at pitch 16 by a second call on
\* a destination that held 170s before the first call
C17_Witness ==
    /\ pc = "again"
    /\ bytes = Const(16, 0)
    /\ destination_pitch = 16
    /\ dest0 = Const(64, 170)
    /\ dest = Const(64, 0)

\* ---------------------------------------------------------------------------
\* compress_block_bc7_core step by step: which mode searches run on a block,
\* in which order, what each of them finds and which result is kept.
\* ---------------------------------------------------------------------------

\* BC7Settings::opaque_slow()
opaque_slow ==
    [channels |-> 3,
     mode_selection |-> <<1, 1, 1, 1>>,
     skip_mode2 |-> 0,
     fast_skip_threshold_mode1 |-> 64,
     fast_skip_threshold_mode3 |-> 64,
     fast_skip_threshold_mode7 |-> 0,
     mode45_channel0 |-> 0,
     refine_iterations_channel |-> 4,
     refine_iterations |-> <<4, 4, 4, 4, 4, 4, 4, 0>>]

\* BC7Settings::alpha_fast()
alpha_fast ==
    [channels |-> 4,
     mode_selection |-> <<0, 1, 1, 1>>,
     skip_mode2 |-> 1,
     fast_skip_threshold_mode1 |-> 4,
     fast_skip_threshold_mode3 |-> 4,
     fast_skip_threshold_mode7 |-> 8,
     mode45_channel0 |-> 3,
     refine_iterations_channel |-> 2,
     refine_iterations |-> <<2, 1, 2, 1, 2, 2, 2, 2>>]

\* BC7Settings::alpha_slow()
alpha_slow ==
    [channels |-> 4,
     mode_selection |-> <<1, 1, 1, 1>>,
     skip_mode2 |-> 0,
     fast_skip_threshold_mode1 |-> 64,
     fast_skip_threshold_mode3 |-> 64,
     fast_skip_threshold_mode7 |-> 64,
     mode45_channel0 |-> 0,
     refine_iterations_channel |-> 4,
     refine_iterations |-> <<4, 4, 4, 4, 4, 4, 4, 4>>]

\* the settings p with mode_selection m
Selecting(p, m) == [p EXCEPT !.mode_selection = m]

\* every value of mode_selection
Selections == {<<s[1], s[2], s[3], s[4]>> : s \in [1..4 -> {0, 1}]}

\* the 4x4 images searched: one colour, a grey ramp, a ramp in every channel
BlackPixels == UniformPixels(<<0, 0, 0, 255>>)
GreyPixels == RampPixels(<<0, 0, 0, 255>>, <<17, 17, 17, 0>>)
AlphaRampPixels == RampPixels(<<240, 16, 128, 7>>, <<-16, 8, 1, 3>>)

\* alpha_fast with the partition search of one of the modes 1, 3, 7 at
\* breadth 0
ZeroBreadth ==
    {[alpha_fast EXCEPT !.fast_skip_threshold_mode1 = 0],
     [alpha_fast EXCEPT !.fast_skip_threshold_mode3 = 0],
     [alpha_fast EXCEPT !.fast_skip_threshold_mode7 = 0]}

\* settings with a breadth above the 64 entries of part_list: for mode 1
\* after the calls of bc7_enc_mode02, for mode 7 after the calls of
\* bc7_enc_mode13, and for mode 3 with the breadth of mode 1 at 0
OverBreadth ==
    {<<Selecting([opaque_ultra_fast EXCEPT !.fast_skip_threshold_mode1 = 65],
                 <<1, 1, 1, 1>>), BlackPixels>>,
     <<Selecting([alpha_fast EXCEPT !.fast_skip_threshold_mode7 = 65],
                 <<0, 1, 0, 0>>), GreyPixels>>,
     <<[alpha_fast EXCEPT !.fast_skip_threshold_mode1 = 0,
                          !.fast_skip_threshold_mode3 = 200], GreyPixels>>}

\* settings with a number of channels that no preset has: 5, with which
\* bc7_enc_mode6 panics at once and bc7_enc_mode45 after the candidates of
\* rotation 3, and 2, with which modes 4 and 5 try the rotations 0 and 1
OtherChannels ==
    {<<Selecting([opaque_ultra_fast EXCEPT !.channels = 5], <<0, 0, 0, 1>>),
       BlackPixels>>,
     <<Selecting([alpha_ultrafast EXCEPT !.channels = 5, !.mode45_channel0 = 3],
                 <<0, 0, 1, 1>>), AlphaRampPixels>>,
     <<Selecting([opaque_ultra_fast EXCEPT !.channels = 2], <<0, 0, 1, 1>>),
       GreyPixels>>}

\* the searches made: the settings and the image of each.  The fastest
\* preset without alpha with every mode_selection, the slow presets and the
\* fast presets with alpha as they are or with some slots, a breadth of 0
\* for one mode each, mode45_channel0 = channels, a breadth above 64, and
\* 5 or 2 channels
SearchCases ==
    OverBreadth \cup OtherChannels \cup
    {<<Selecting(opaque_ultra_fast, m), BlackPixels>> : m \in Selections}
    \cup {<<Selecting(opaque_ultra_fast, <<1, 1, 1, 1>>), GreyPixels>>,
          <<opaque_slow, BlackPixels>>,
          <<alpha_slow, AlphaRampPixels>>,
          <<Selecting([opaque_ultra_fast EXCEPT !.mode45_channel0 = 3],
                      <<0, 0, 1, 1>>), GreyPixels>>}
    \cup {<<Selecting(alpha_ultrafast, m), AlphaRampPixels>> :
             m \in {<<1, 1, 1, 1>>, <<0, 0, 1, 1>>, <<0, 1, 0, 0>>}}
    \cup {<<Selecting(p, m), GreyPixels>> :
             p \in ZeroBreadth, m \in {<<0, 1, 0, 0>>, <<0, 1, 0, 1>>}}

\* a compressor with its block loaded and opaque_err computed, before
\* compress_block_bc7_core
InitModes ==
    /\ pc = "searching"
    /\ \E c \in SearchCases :
          /\ settings = c[1]
          /\ block = load_block_interleaved_rgba(c[2], 0, 0, 16)
    /\ opaque_err = compute_opaque_err(block, settings.channels)
    /\ best_err = INFINITY
    /\ data = ZeroData
    /\ found = <<>>
    /\ searched = <<>>
    /\ candidate = <<>>
    /\ pos = 0
    /\ BitsIdle /\ bytes = <<>> /\ DestIdle /\ PackIdle /\ ApiIdle
    /\ TilesIdle /\ GpuIdle /\ QuantIdle /\ TablesIdle /\ QueueIdle

\* the steps compress_block_bc7_core makes under the settings
Calls == SearchCalls(settings).calls

\* the step compress_block_bc7_core makes next
NextCall == Calls[Len(searched) + 1]

\* step c runs a search: a call of bc7_enc_mode01237 that does not return at
\* once, of bc7_enc_mode45_candidate or of bc7_enc_mode6
HasSearch(c) ==
    \/ c.op \in {"candidate", "mode6"}
    \/ c.op = "mode01237" /\ c.part_count > 0

\* what the search of the next step finds on the block
NextResult ==
    SearchResult(NextCall, block, settings,
                 PartList13(block, settings, Calls))

Current == [best_err |-> best_err, data |-> data]

\* the next step of compress_block_bc7_core is of kind op
AtStep(op) ==
    /\ pc = "searching"
    /\ Len(searched) < Len(Calls)
    /\ NextCall.op = op

\* the step is made: searched takes the call, found the error of the result
\* r of its search (INFINITY when the step runs no search)
Searched(r) ==
    /\ searched' = Append(searched, NextCall)
    /\ found' = Append(found, IF HasSearch(NextCall) THEN r.err ELSE INFINITY)

\* best_err and data of the compressor become those of new
Kept(new) == best_err' = new.best_err /\ data' = new.data

\* one call of bc7_enc_mode01237
EncMode01237 ==
    /\ AtStep("mode01237")
    /\ \E r \in {NextResult} :
          /\ Searched(r)
          /\ \E new \in {bc7_enc_mode01237(NextCall, r, opaque_err, Current)} :
                Kept(new)
    /\ UNCHANGED <<pc, settings, candidate, notModes>>

\* bc7_enc_mode45 declares its locals
EnterMode45 ==
    /\ AtStep("enter45")
    /\ Searched(<<>>)
    /\ candidate' = [best_err |-> best_err, best_candidate |-> Mode45Default]
    /\ UNCHANGED <<pc, settings, best_err, data, notModes>>

\* one call of bc7_enc_mode45_candidate
EncMode45Candidate ==
    /\ AtStep("candidate")
    /\ \E r \in {NextResult} :
          /\ Searched(r)
          /\ candidate' = bc7_enc_mode45_candidate(candidate, r)
    /\ UNCHANGED <<pc, settings, best_err, data, notModes>>

\* bc7_enc_mode45 compares its local best with the running best
KeepMode45 ==
    /\ AtStep("keep45")
    /\ Searched(<<>>)
    /\ \E new \in {bc7_enc_mode45_keep(candidate, NextCall.mode, Current)} :
          Kept(new)
    /\ UNCHANGED <<pc, settings, candidate, notModes>>

\* the call of bc7_enc_mode6
EncMode6 ==
    /\ AtStep("mode6")
    /\ \E r \in {NextResult} :
          /\ Searched(r)
          /\ \E new \in {bc7_enc_mode6_keep(r, Current)} : Kept(new)
    /\ UNCHANGED <<pc, settings, candidate, notModes>>

\* compress_block_bc7_core returns
EndSearch ==
    /\ pc = "searching"
    /\ Len(searched) = Len(Calls)
    /\ ~SearchCalls(settings).panicked
    /\ pc' = "searched"
    /\ UNCHANGED <<settings, found, searched, candidate, best_err, data,
                   notModes>>

\* compress_block_bc7_core panics after the steps made so far: in
\* partial_sort_list of bc7_enc_mode13 or bc7_enc_mode7, before any call of
\* bc7_enc_mode01237 with the part_list it was sorting, or on more than 4
\* channels in compute_stats_masked (bc7_enc_mode7, bc7_enc_mode6) or in the
\* candidate of rotation 4 (bc7_enc_mode45)
CorePanics ==
    /\ pc = "searching"
    /\ Len(searched) = Len(Calls)
    /\ SearchCalls(settings).panicked
    /\ pc' = "panicked"
    /\ outcome' = "panic"
    /\ UNCHANGED <<settings, found, searched, candidate, best_err, data, pos,
                   bitVars, bytes, dest0, dest, destination_pitch, packVars,
                   block, opaque_err, apiVars, tileVars, gpuVars, quantVars,
                   tableVars, queueVars>>

NextModes ==
    \/ EncMode01237 \/ EnterMode45 \/ EncMode45Candidate \/ KeepMode45
    \/ EncMode6 \/ EndSearch \/ CorePanics

SpecModes == InitModes /\ [][NextModes]_vars

\* the search of mode m was run: a call of its search that did not return at
\* once is among the calls made
SearchRan(m) ==
    \E i \in 1..Len(searched) :
        searched[i].mode = m /\ HasSearch(searched[i])

\* the partition-search breadth the settings give mode 1, 3 or 7
Breadth(m, st) ==
    IF m = 1 THEN st.fast_skip_threshold_mode1
    ELSE IF m = 3 THEN st.fast_skip_threshold_mode3
    ELSE st.fast_skip_threshold_mode7

\* C16 as stated: mode_selection has 8 slots, and after the search the
\* search of mode m has run exactly when slot m is set.
C16_OneSlotPerMode ==
    pc = "searched" =>
        /\ Len(settings.mode_selection) = 8
        /\ \A m \in 0..7 :
              SearchRan(m) <=> settings.mode_selection[m + 1] # 0

\* the order in which compress_block_bc7_core visits the modes
SearchOrder == <<0, 2, 1, 3, 7, 4, 5, 6>>

\* the final errors of the searches of mode m among the calls cs, errs[i]
\* being what the search of cs[i] reported: opaque_err is added for the
\* modes without alpha (0..3)
ModeErrors(m, cs, errs) ==
    {IF m \in 0..3 THEN F32Add(errs[i], opaque_err) ELSE errs[i] :
        i \in {j \in 1..Len(cs) : cs[j].mode = m /\ HasSearch(cs[j])}}

\* the least of a set of errors
LeastErr(S) == CHOOSE x \in S : \A y \in S : ~F32Lt(y, x)

\* the least of a set of numbers
SetMin(S) == CHOOSE x \in S : \A y \in S : x <= y

\* the mode the packed words of d encode (8 when no mode bit is set)
EncodedMode(d) == FindMode(BitStream_new(store_data(d)), 0).mode

\* C18: in every step of the search of one block the running best error does
\* not increase; the output is rewritten only in a step that finishes a mode
\* whose final error is strictly below the running best, which becomes that
\* error; and when the search returns after at least one mode has run, the
\* running best is the least final error and the output encodes the first
\* mode in the order 0, 2, 1, 3, 7, 4, 5, 6 that attains it.
C18_FirstBestModeKept ==
    [][pc = "searching" =>
        /\ ~F32Lt(best_err, best_err')
        /\ data' # data =>
              LET c == searched'[Len(searched')]
                  errs == ModeErrors(c.mode, searched', found')
              IN /\ c.op \in {"mode01237", "keep45", "mode6"}
                 /\ errs # {}
                 /\ F32Lt(LeastErr(errs), best_err)
                 /\ best_err' = LeastErr(errs)
                 /\ EncodedMode(data') = c.mode
        /\ (pc' = "searched" /\ \E m \in 0..7 : SearchRan(m)) =>
              LET least == LeastErr(UNION {ModeErrors(m, searched, found) :
                                             m \in 0..7})
                  first == SetMin({i \in 1..8 :
                               least \in ModeErrors(SearchOrder[i], searched,
                                                    found)})
              IN /\ best_err = least
                 /\ EncodedMode(data) = SearchOrder[first]]_vars

\* C18 witness: a finished search with all four slots set in which mode 0 and
\* the later mode 6 both attained the least final error, and the output
\* encodes mode 0.
C18_Witness ==
    /\ pc = "searched"
    /\ settings.mode_selection = <<1, 1, 1, 1>>
    /\ SearchRan(0) /\ SearchRan(2) /\ SearchRan(3) /\ SearchRan(5)
    /\ SearchRan(6)
    /\ best_err \in ModeErrors(0, searched, found)
    /\ best_err \in ModeErrors(6, searched, found)
    /\ EncodedMode(data) = 0

\* the calls of bc7_enc_mode45_candidate made so far for a mode, a rotation
\* (0, 1, 2: the R, G or B channel changes place with alpha; 3: none) and a
\* swap value
CandidateCalls(mode, rotation, swap) ==
    {i \in 1..Len(searched) :
        /\ searched[i].op = "candidate"
        /\ searched[i].mode = mode
        /\ searched[i].rotation = rotation
        /\ searched[i].swap = swap}

\* C24 as stated: whatever the settings, a finished search with the slot of
\* modes 4 and 5 set has evaluated all four rotations for mode 5 and all four
\* rotations with both swap values for mode 4.
C24_EveryRotationTried ==
    (pc = "searched" /\ settings.mode_selection[3] # 0) =>
        \A rotation \in 0..3 :
            /\ CandidateCalls(5, rotation, 0) # {}
            /\ \A swap \in {0, 1} : CandidateCalls(4, rotation, swap) # {}

\* C24 amended: a finished search with the slot of modes 4 and 5 set has
\* evaluated exactly the rotations mode45_channel0 .. channels - 1 (0, 1, 2
\* for R, G, B and 3 for none), each once for mode 5 and each once with
\* either swap value for mode 4, and no other rotation.
C24_RotationsFromChannel0 ==
    (pc = "searched" /\ settings.mode_selection[3] # 0) =>
        \A rotation \in 0..3 :
            LET times == IF /\ settings.mode45_channel0 <= rotation
                            /\ rotation < settings.channels
                         THEN 1 ELSE 0
            IN /\ Cardinality(CandidateCalls(5, rotation, 0)) = times
               /\ Cardinality(CandidateCalls(5, rotation, 1)) = 0
               /\ \A swap \in {0, 1} :
                     Cardinality(CandidateCalls(4, rotation, swap)) = times

\* C24 witness: a finished search under settings with mode45_channel0 = 3 and
\* four channels, in which modes 4 and 5 were evaluated without rotation
\* only: rotation 3 with both swap values, no candidate with rotation 0.
C24_Witness ==
    /\ pc = "searched"
    /\ settings.mode_selection[3] # 0
    /\ settings.mode45_channel0 = 3 /\ settings.channels = 4
    /\ CandidateCalls(4, 3, 0) # {} /\ CandidateCalls(4, 3, 1) # {}
    /\ CandidateCalls(5, 3, 0) # {}
    /\ CandidateCalls(4, 0, 0) = {} /\ CandidateCalls(5, 0, 0) = {}

\* the calls of bc7_enc_mode01237 made so far for mode m
Mode01237Calls(m) ==
    {i \in 1..Len(searched) :
        searched[i].op = "mode01237" /\ searched[i].mode = m}

\* C25: a call of bc7_enc_mode01237 with part_count = 0 leaves the running
\* best error and the output block as they were and raises nothing; and in a
\* finished search with the slot of modes 1, 3 and 7 set, each of these modes
\* whose breadth is not 0 was searched once, with its own breadth, whether or
\* not the breadth of the others is 0, and a mode with breadth 0 was not
\* searched.
C25_ZeroBreadthIsNoOp ==
    /\ [][(/\ pc = "searching"
           /\ Len(searched) < Len(Calls)
           /\ NextCall.op = "mode01237"
           /\ NextCall.part_count = 0)
          => (best_err' = best_err /\ data' = data /\ outcome' = "none")]_vars
    /\ [](pc = "searched" /\ settings.mode_selection[2] # 0 =>
            \A m \in {1, 3, 7} :
                /\ Breadth(m, settings) # 0 =>
                      /\ Cardinality(Mode01237Calls(m)) = 1
                      /\ \A i \in Mode01237Calls(m) :
                            searched[i].part_count = Breadth(m, settings)
                /\ Breadth(m, settings) = 0 => ~SearchRan(m))

\* C25 witness: a finished search with breadth 0 for mode 1, 4 for mode 3
\* and 8 for mode 7: the call of bc7_enc_mode01237 for mode 1 was made with
\* part_count 0 and ran no search, modes 3 and 7 were searched with 4 and 8
\* partitions, and the block kept is of mode 3 or 7.
C25_Witness ==
    /\ pc = "searched"
    /\ settings.mode_selection = <<0, 1, 0, 0>>
    /\ settings.fast_skip_threshold_mode1 = 0
    /\ \E i \in Mode01237Calls(1) : searched[i].part_count = 0
    /\ ~SearchRan(1)
    /\ \E i \in Mode01237Calls(3) :
          searched[i].part_count = 4 /\ F32Lt(found[i], INFINITY)
    /\ \E i \in Mode01237Calls(7) :
          searched[i].part_count = 8 /\ F32Lt(found[i], INFINITY)
    /\ EncodedMode(data) \in {3, 7}

\* ---------------------------------------------------------------------------
\* Index assignment: block_quant and channel_opt_quant on their own
\* ---------------------------------------------------------------------------

\* endpoint pairs <<a.r, a.g, a.b, a.a, b.r, b.g, b.b, b.a>> as ep_dequant
\* leaves them: rising, falling, equal, full range, and mixed
QuantEndpoints ==
    {<<0, 0, 0, 255, 64, 0, 0, 255>>, <<64, 0, 0, 255, 0, 0, 0, 255>>,
     <<10, 10, 10, 255, 10, 10, 10, 255>>, <<0, 0, 0, 0, 255, 255, 255, 255>>,
     <<16, 0, 48, 255, 48, 32, 16, 255>>}

\* channel p (1..4) of texel k (0..15) of the n-th block: a ramp of reds that
\* passes through 32, one colour, a spread of colours, a falling ramp
QuantTexel(n, k, p) ==
    CASE n = 1 -> <<(8 * k) % 72, 0, 0, 255>>[p]
      [] n = 2 -> <<10, 10, 10, 255>>[p]
      [] n = 3 -> <<(17 * k) % 256, (5 * k + 3) % 256, 255 - k,
                    (16 * k) % 256>>[p]
      [] OTHER -> <<64 - 4 * k, 0, 0, 255>>[p]

\* the block as load_block_interleaved_rgba leaves it: channel by channel
QuantBlock(n) ==
    [i \in 1..64 |->
        F32FromInt(QuantTexel(n, (i - 1) % 16, ((i - 1) \div 16) + 1))]

\* the red channel alone, the channel_block of opt_channel
QuantChannel(n) == [i \in 1..16 |-> F32FromInt(QuantTexel(n, i - 1, 1))]

QuantCalls ==
    {[op |-> "block_quant", bits |-> b, channels |-> c,
      ep |-> [i \in 1..8 |-> F32FromInt(e[i])], block |-> QuantBlock(n),
      qblock |-> <<Zeros(32), Zeros(32)>>, err |-> 0] :
        b \in {2, 3, 4}, c \in {3, 4}, e \in QuantEndpoints, n \in 1..4}
    \cup
    {[op |-> "channel_opt_quant", bits |-> b, channels |-> 1,
      ep |-> <<F32FromInt(e[1]), F32FromInt(e[5])>>, block |-> QuantChannel(n),
      qblock |-> <<Zeros(32), Zeros(32)>>, err |-> 0] :
        b \in {2, 3}, e \in QuantEndpoints, n \in 1..4}

notQuant == <<dataVars, bitVars, bytes, destVars, packVars, encVars, apiVars,
              tileVars, gpuVars, modeVars, tableVars, queueVars>>

InitQuant ==
    /\ pc = "quant"
    /\ quant \in QuantCalls
    /\ bytes = <<>>
    /\ DataIdle /\ BitsIdle /\ DestIdle /\ PackIdle /\ EncIdle /\ ApiIdle
    /\ TilesIdle /\ GpuIdle /\ ModesIdle /\ TablesIdle /\ QueueIdle

\* block_quant(&mut qblock, block, bits, ep, 0, channels)
BlockQuant ==
    /\ pc = "quant"
    /\ quant.op = "block_quant"
    /\ \E r \in {block_quant(quant.block, quant.bits, quant.ep, Zeros(32),
                            quant.channels)} :
          quant' = [quant EXCEPT !.qblock = r.qblock, !.err = r.err]
    /\ pc' = "quantized"
    /\ UNCHANGED notQuant

\* channel_opt_quant(&mut qblock, channel_block, bits, ep)
ChannelOptQuant ==
    /\ pc = "quant"
    /\ quant.op = "channel_opt_quant"
    /\ \E r \in {channel_opt_quant(quant.block, quant.bits, quant.ep)} :
          quant' = [quant EXCEPT !.qblock = r.qblock, !.err = r.err]
    /\ pc' = "quantized"
    /\ UNCHANGED notQuant

NextQuant == BlockQuant \/ ChannelOptQuant

SpecQuant == InitQuant /\ [][NextQuant]_vars

\* the two candidates compared for texel k (0-based) of the call in hand
QuantCandidates(k) ==
    IF quant.op = "block_quant"
    THEN block_quant_candidates(quant.block, quant.bits, quant.ep,
                                quant.channels, k)
    ELSE channel_opt_quant_candidates(quant.block, quant.bits, quant.ep, k)

\* C20 as stated: a texel whose two candidate indices have equal squared
\* errors is given the lower of the two.
C20_TieTakesLowerIndex ==
    pc = "quantized" =>
        \A k \in 0..15 :
            LET tie(c) == c.err0 = c.err1 =>
                              Nibble(quant.qblock, k) = c.q1_clamped - 1
            IN tie(QuantCandidates(k))

\* C20 amended: a texel whose two candidate indices have equal squared errors
\* is given the higher of the two (q1_clamped), in block_quant and in
\* channel_opt_quant; the lower one is given only when its error is strictly
\* smaller.
C20_TieTakesHigherIndex ==
    pc = "quantized" =>
        \A k \in 0..15 :
            LET tie(c) ==
                    /\ c.err0 = c.err1 => Nibble(quant.qblock, k) = c.q1_clamped
                    /\ Nibble(quant.qblock, k) = c.q1_clamped - 1
                           => F32Lt(c.err0, c.err1)
            IN tie(QuantCandidates(k))

\* C20 witness: block_quant with 2-bit indices between the endpoints red 0
\* and red 64 has met the texel of red 32, midway between the values 21 and
\* 43 of indices 1 and 2, and has given it index 2.
C20_Witness ==
    /\ pc = "quantized"
    /\ quant.op = "block_quant"
    /\ quant.bits = 2
    /\ quant.ep[1] = F32FromInt(0) /\ quant.ep[5] = F32FromInt(64)
    /\ quant.block[5] = F32FromInt(32)
    /\ QuantCandidates(4).err0 = F32FromInt(121)
    /\ QuantCandidates(4).err1 = F32FromInt(121)
    /\ Nibble(quant.qblock, 4) = 2

\* ---------------------------------------------------------------------------
\* The partition tables of the encoder and of the decoder
\* ---------------------------------------------------------------------------

\* everything but pc and tables
notTables == <<dataVars, bitVars, bytes, destVars, packVars, encVars, apiVars,
               tileVars, gpuVars, modeVars, quantVars, shl_call, queueVars>>

\* a partition id as the encoder numbers them: 0..63 with two subsets,
\* 64..127 with three
InitTables ==
    /\ pc = "part"
    /\ tables \in {[part_id |-> id, pattern |-> <<>>, masks |-> <<>>,
                    skips |-> <<>>, sets |-> <<>>] : id \in 0..127}
    /\ shl_call = <<>>
    /\ bytes = <<>>
    /\ DataIdle /\ BitsIdle /\ DestIdle /\ PackIdle /\ EncIdle /\ ApiIdle
    /\ TilesIdle /\ GpuIdle /\ ModesIdle /\ QuantIdle
    /\ QueueIdle

\* get_pattern(part_id), get_pattern_mask(part_id, 0..2), get_skips(part_id)
EncoderLookUp ==
    /\ pc = "part"
    /\ tables' = [tables EXCEPT
                     !.pattern = Word(get_pattern(tables.part_id)),
                     !.masks = [j \in 1..3 |->
                                   get_pattern_mask(tables.part_id, j - 1)],
                     !.skips = get_skips(tables.part_id)]
    /\ pc' = "encoder"
    /\ UNCHANGED notTables

\* PARTITION_SETS[num_partitions - 2][partition][i][j] for the 16 texels
DecoderLookUp ==
    /\ pc = "encoder"
    /\ tables' = [tables EXCEPT
                     !.sets = [k \in 1..16 |->
                                  PartitionSet(
                                      IF tables.part_id < 64 THEN 2 ELSE 3,
                                      tables.part_id % 64, k - 1)]]
    /\ pc' = "looked"
    /\ UNCHANGED notTables

NextTables == EncoderLookUp \/ DecoderLookUp

SpecTables == InitTables /\ [][NextTables]_vars

\* C22: for every partition id the subset of each texel in the encoder's
\* pattern is the one subset whose mask has the texel's bit and is the subset
\* in the decoder's table; every subset has exactly one texel flagged as
\* fix-up in the decoder's table, which belongs to it; subset 0's is texel 0;
\* and get_skips gives the flagged texels of subsets 1 and 2.
C22_TablesAgree ==
    pc = "looked" =>
        LET pairs == IF tables.part_id < 64 THEN 2 ELSE 3
            pat(k) == tables.pattern[2 * k + 1] + 2 * tables.pattern[2 * k + 2]
            set(k) == tables.sets[k + 1]
        IN /\ \A k \in 0..15 :
                 /\ pat(k) < pairs
                 /\ \A j \in 0..2 : tables.masks[j + 1][k + 1] = 1 <=> j = pat(k)
                 /\ set(k) % 128 = pat(k)
           /\ \A j \in 0..(pairs - 1) :
                 Cardinality({k \in 0..15 : set(k) = 128 + j}) = 1
           /\ Cardinality({k \in 0..15 : set(k) >= 128}) = pairs
           /\ set(0) = 128
           /\ \A j \in 1..(pairs - 1) : set(tables.skips[j + 1]) = 128 + j

\* C22 witness: a three-subset partition looked up on both sides whose
\* fix-up texels of subsets 1 and 2 are both inside the block (not texel 15)
C22_Witness ==
    /\ pc = "looked"
    /\ tables.part_id >= 64
    /\ tables.skips[2] \in 1..14
    /\ tables.skips[3] \in 1..14
    /\ tables.sets[tables.skips[2] + 1] = 129
    /\ tables.sets[tables.skips[3] + 1] = 130
    /\ tables.masks[3][tables.skips[3] + 1] = 1

\* ---------------------------------------------------------------------------
\* data_shl_1bit_from, call by call, as bc7_code_mode01237 uses it
\* ---------------------------------------------------------------------------

\* data_shl_1bit_from for from_bits < 64 in a build without overflow checks:
\* from_bits - 64 wraps, and the shift by it takes its amount modulo 32
data_shl_1bit_from_wrapped(d, from_bits) ==
    LET shifted == BitOr(Shr(d[3], 1), Shl(d[4], 31))
        mask == Shr(LowMask(from_bits % 32), 1)
    IN [d EXCEPT ![3] = BitOr(BitAnd(mask, d[3]),
                              BitAnd(BitNot(mask), shifted)),
                 ![4] = BitOr(Shr(d[4], 1), Shl(d[5], 31)),
                 ![5] = Shr(d[5], 1)]

\* everything but pc, data, outcome and shl_call
notShift == <<pos, bitVars, bytes, dest0, dest, destination_pitch, packVars,
              encVars, apiVars, tileVars, gpuVars, modeVars, quantVars,
              tables, queueVars>>

\* bc7_code_mode01237 has written the header, the endpoints, the p-bits and
\* the sixteen indices of a block and is about to call
\* bc7_code_adjust_skip_mode01237, the one caller of data_shl_1bit_from
InitShift ==
    /\ pc = "shl"
    /\ input \in Inputs01237
    /\ input.mode = 0 => input.part_id < 80
    /\ fields = <<>>
    /\ \E c \in {Mode01237Written(input.qep, input.qblock, input.part_id,
                                  input.mode)} :
          /\ data = c.data
          /\ pos = c.pos
          /\ shl_call = [offsets |-> SkipOffsets(input.mode, input.part_id),
                         made |-> 0, from_bits |-> 0, before |-> c.data]
    /\ tables = <<>>
    /\ bytes = <<>>
    /\ BitsIdle /\ DestIdle /\ EncIdle /\ ApiIdle
    /\ TilesIdle /\ GpuIdle /\ ModesIdle /\ QuantIdle
    /\ QueueIdle

\* the next call data_shl_1bit_from(data, from_bits) of
\* bc7_code_adjust_skip_mode01237; below 64 the subtraction from_bits - 64
\* overflows, which panics in a build with overflow checks and wraps in one
\* without
DataShl1BitFrom ==
    /\ pc = "shl"
    /\ shl_call.made < Len(shl_call.offsets)
    /\ \E from_bits \in {shl_call.offsets[shl_call.made + 1]},
          overflow_checks \in BOOLEAN :
          /\ from_bits >= 64 => overflow_checks
          /\ data' = IF from_bits >= 64
                     THEN data_shl_1bit_from(data, from_bits)
                     ELSE IF overflow_checks THEN data
                     ELSE data_shl_1bit_from_wrapped(data, from_bits)
          /\ outcome' = IF from_bits < 64 /\ overflow_checks
                        THEN "panic" ELSE "returned"
          /\ pc' = IF from_bits < 64 /\ overflow_checks THEN "panicked"
                   ELSE IF shl_call.made + 1 = Len(shl_call.offsets)
                   THEN "shifted" ELSE "shl"
          /\ shl_call' = [shl_call EXCEPT !.made = @ + 1,
                                          !.from_bits = from_bits,
                                          !.before = data]
    /\ UNCHANGED notShift

NextShift == DataShl1BitFrom

SpecShift == InitShift /\ [][NextShift]_vars

\* bit b (0..159) of five words
DataBit(d, b) == d[(b \div 32) + 1][(b % 32) + 1]

\* the data is what it was with bit b taken out: the bits below b as before,
\* every bit above b one position down, and a 0 at the top
BitRemovedAt(b) ==
    /\ outcome = "returned"
    /\ b \in 0..159
    /\ \A i \in 0..159 :
          DataBit(data, i) = IF i < b THEN DataBit(shl_call.before, i)
                             ELSE IF i < 159 THEN DataBit(shl_call.before, i + 1)
                             ELSE 0

\* C23: at every offset the coder hands to it, which is the position just
\* after the index of a fix-up texel, data_shl_1bit_from removes exactly one
\* bit at that offset, the top bit of that index (bit from_bits - 1): every
\* bit below it is unchanged and every bit above it has moved down by one
\* position.
C23_DeletesBitAtOffset ==
    (pc \in {"shl", "shifted"} /\ shl_call.made > 0) =>
        BitRemovedAt(shl_call.from_bits - 1)

\* C23 witness: the second call for a block of three subsets, at an offset
\* inside word 2, has taken out the 0 below the offset where the bit at the
\* offset was 1, so that the 1 moved down into its place, the words above
\* moved down with it and the bits below stayed.
C23_Witness ==
    /\ pc = "shifted"
    /\ shl_call.made = 2
    /\ shl_call.from_bits \in 65..95
    /\ DataBit(shl_call.before, shl_call.from_bits - 1) = 0
    /\ DataBit(shl_call.before, shl_call.from_bits) = 1
    /\ DataBit(data, shl_call.from_bits - 1) = 1
    /\ DataBit(data, shl_call.from_bits - 2)
          = DataBit(shl_call.before, shl_call.from_bits - 2)
    /\ DataBit(shl_call.before, 128) = 1
    /\ DataBit(data, 127) = 1
    /\ data # shl_call.before

\* ---------------------------------------------------------------------------
\* The decoder's reads for every mode and every header
\* ---------------------------------------------------------------------------

\* the width of the header field that follows the mode bits: the partition
\* (4 bits in mode 0, 6 in modes 1, 2, 3, 7), the rotation and the index
\* selection bit of mode 4, the rotation of mode 5, nothing in mode 6
HeaderWidth(mode) ==
    IF mode = 0 THEN 4 ELSE IF mode \in {1, 2, 3, 7} THEN 6
    ELSE IF mode = 4 THEN 3 ELSE IF mode = 5 THEN 2 ELSE 0

\* the 128 bits of a block: mode bits, header field, then ones throughout
\* (fill = 1) or a 1 at every third bit
HeaderBits(mode, header, fill) ==
    LET start == Zeros(mode) \o <<1>> \o ToBits(header, HeaderWidth(mode))
    IN [i \in 1..128 |->
          IF i <= Len(start) THEN start[i]
          ELSE IF fill = 1 \/ i % 3 = 0 THEN 1 ELSE 0]

HeaderBlocks ==
    {[b \in 1..16 |->
         BitsVal(SubSeq(HeaderBits(mh[1], mh[2], fill), 8 * b - 7, 8 * b), 8)] :
        mh \in {x \in (0..7) \X (0..63) : x[2] < Pow2(HeaderWidth(x[1]))},
        fill \in {0, 1}}

InitRead ==
    /\ pc = "header"
    /\ bytes \in HeaderBlocks
    /\ input = <<>>
    /\ fields = <<>>
    /\ DataIdle
    /\ BitsIdle
    /\ DestIdle
    /\ EncIdle
    /\ ApiIdle
    /\ TilesIdle
    /\ ModesIdle
    /\ QuantIdle
    /\ TablesIdle /\ QueueIdle
    /\ GpuIdle

\* decode_block_bc7 up to its last read_bits call
ReadBlock ==
    /\ pc = "header"
    /\ LET m == FindMode(BitStream_new(bytes), 0)
       IN fields' = IF m.mode >= 8 THEN [mode |-> m.mode] ELSE ParseFields(m)
    /\ pc' = "read"
    /\ UNCHANGED <<data, pos, bytes, input, notPack>>

NextRead == ReadBlock

SpecRead == InitRead /\ [][NextRead]_vars

\* the value the last read_bits call of the block returned
LastRead ==
    IF IndexBits2(fields.mode) = 0 THEN fields.indices[16]
    ELSE fields.indices2[16]

\* C28: for every mode 0..7 and every value of the header field, the widths
\* of the decoder's read_bits calls add up to 128, none of them is 0, and no
\* call reads past the end: the stream is empty after the last call, and in
\* a block that ends in ones the last call returns ones over its whole
\* width.
C28_ReadsExactly128Bits ==
    pc = "read" =>
        /\ fields.mode \in 0..7
        /\ SeqSum(fields.widths) = 128
        /\ \A i \in 1..Len(fields.widths) : fields.widths[i] >= 1
        /\ fields.rest = EmptyStream
        /\ bytes[16] = 255 =>
              LastRead = Pow2(fields.widths[Len(fields.widths)]) - 1

\* C28 witness: a block of mode 2 with partition 63 read to its end, with
\* three fix-up texels read with one bit and the last index read with two.
C28_Witness ==
    /\ pc = "read"
    /\ fields.mode = 2
    /\ fields.partition = 63
    /\ bytes[16] = 255
    /\ Cardinality({k \in 0..15 : PartitionSet(3, 63, k) >= 128}) = 3
    /\ Len(fields.indices) = 16
    /\ fields.indices[1] = 1
    /\ fields.indices[16] = 3

\* ---------------------------------------------------------------------------
\* GpuBlockCompressor and the queue: batches recorded and submitted
\* ---------------------------------------------------------------------------

\* the most calls of compress in one run
MaxBatches == 2

\* the most tasks queued for one batch in these runs
MaxQueued == 3

\* a task on one 4x4 block placed 2 bytes into a buffer of 18 bytes
OffsetTask ==
    [variant |-> alpha_slow, texture_view |-> "offset", width |-> 4,
     height |-> 4, buffer |-> [label |-> "offset", size |-> 18, storage |-> TRUE],
     texture_y_offset |-> <<>>, blocks_offset |-> <<2>>]

BatchArguments == AcceptedArguments \cup {OffsetTask}

\* everything but the compressor, the queue, call and outcome
notBatches == <<dataVars, bitVars, bytes, dest0, dest, destination_pitch,
                packVars, encVars, rgba_data, blocks_buffer, tileVars,
                modeVars, quantVars, tableVars>>

\* GpuBlockCompressor::new(device, queue), with nothing staged on the queue,
\* nothing recorded and nothing executed
InitBatches ==
    /\ pc = "batches"
    /\ device \in DeviceLimits
    /\ uniforms_aligned_size =
           AlignedSize(UniformsSize, device.min_uniform_buffer_offset_alignment)
    /\ bc7_aligned_size =
           AlignedSize(BC7SettingsSize, device.min_storage_buffer_offset_alignment)
    /\ uniforms_buffer = create_buffer(uniforms_aligned_size * InitialSlots)
    /\ bc7_settings_buffer = create_buffer(bc7_aligned_size * InitialSlots)
    /\ task = <<>>
    /\ pass = <<>>
    /\ queue = [writes |-> <<>>, commands |-> <<>>, memory |-> <<>>,
                executed |-> <<>>, batches |-> 0]
    /\ call = [op |-> "new", args |-> <<>>]
    /\ outcome = "none"
    /\ rgba_data = <<>>
    /\ blocks_buffer = <<>>
    /\ bytes = <<>>
    /\ DataIdle
    /\ BitsIdle
    /\ DestIdle
    /\ PackIdle
    /\ EncIdle
    /\ TilesIdle
    /\ ModesIdle
    /\ QuantIdle
    /\ TablesIdle

\* one call of add_compression_task, whether or not the commands of the
\* batch before have been submitted
QueueTask ==
    /\ pc = "batches"
    /\ queue.batches < MaxBatches
    /\ Len(task) < MaxQueued
    /\ \E args \in BatchArguments :
          /\ call' = [op |-> "add_compression_task", args |-> args]
          /\ LET ends(r) == task' = r.task /\ outcome' = r.outcome
             IN ends(add_compression_task(task, args))
    /\ UNCHANGED <<pc, uniforms_buffer, bc7_settings_buffer, device,
                   uniforms_aligned_size, bc7_aligned_size, pass, queue,
                   notBatches>>

\* the two calls of queue.write_buffer_with in upload: the slots of the
\* batch staged for the start of each buffer, none for an empty batch
StagedWrites(r, count) ==
    IF count = 0 THEN <<>>
    ELSE <<[kind |-> "uniforms", buffer_size |-> r.uniforms_buffer.size,
            slots |-> SubSeq(r.uniforms_buffer.slots, 1, count)],
           [kind |-> "settings", buffer_size |-> r.bc7_settings_buffer.size,
            slots |-> SubSeq(r.bc7_settings_buffer.slots, 1, count)]>>

\* one call of compress: its writes are staged on the queue and its
\* dispatches recorded after those of the calls before, each with the task
\* it is issued for and the Uniforms uploaded for it
RecordBatch ==
    /\ pc = "batches"
    /\ queue.batches < MaxBatches
    /\ LET uploaded == upload_tasks(task, uniforms_aligned_size,
                                    bc7_aligned_size)
           ends(r) ==
               /\ task' = r.task
               /\ uniforms_buffer' = r.uniforms_buffer
               /\ bc7_settings_buffer' = r.bc7_settings_buffer
               /\ pass' = r.pass
               /\ queue' = [queue EXCEPT
                      !.writes = @ \o StagedWrites(r, Len(task)),
                      !.commands = @ \o
                          [i \in 1..Len(task) |->
                              [dispatch |-> r.pass[i], task |-> uploaded[i],
                               uniforms |-> r.uniforms_buffer.slots[i]]],
                      !.batches = @ + 1]
       IN ends(compress(task, uniforms_buffer, bc7_settings_buffer,
                        uniforms_aligned_size, bc7_aligned_size))
    /\ outcome' = "returned"
    /\ call' = [op |-> "compress", args |-> <<>>]
    /\ UNCHANGED <<pc, device, uniforms_aligned_size, bc7_aligned_size,
                   notBatches>>

\* a staged write reaches the device: the slots written replace the first
\* slots of the buffer of that kind and size (a buffer never written yet
\* holds nothing)
ApplyWrite(memory, w) ==
    IF \E i \in 1..Len(memory) :
           memory[i].kind = w.kind /\ memory[i].buffer_size = w.buffer_size
    THEN [i \in 1..Len(memory) |->
            IF memory[i].kind = w.kind /\ memory[i].buffer_size = w.buffer_size
            THEN [memory[i] EXCEPT !.slots =
                     w.slots \o SubSeq(@, Len(w.slots) + 1, Len(@))]
            ELSE memory[i]]
    ELSE Append(memory, w)

RECURSIVE ApplyWrites(_, _)
ApplyWrites(memory, writes) ==
    IF writes = <<>> THEN memory
    ELSE ApplyWrites(ApplyWrite(memory, Head(writes)), Tail(writes))

\* what a dispatch finds in slot index (from 1) of the buffer of a kind and
\* size; "zeros" in a slot never written
ReadSlot(memory, kind, buffer_size, index) ==
    LET held == {i \in 1..Len(memory) :
                    /\ memory[i].kind = kind
                    /\ memory[i].buffer_size = buffer_size
                    /\ index <= Len(memory[i].slots)}
    IN IF held = {} THEN "zeros"
       ELSE memory[CHOOSE i \in held : TRUE].slots[index]

\* a recorded dispatch runs: it reads the slots its bind group and its
\* dynamic offsets select
ExecuteDispatch(memory, c) ==
    [task |-> c.task,
     uniforms |-> ReadSlot(memory, "uniforms",
                      c.dispatch.bind_group.uniforms.buffer_size,
                      (c.dispatch.offsets[1] \div uniforms_aligned_size) + 1),
     settings |-> ReadSlot(memory, "settings",
                      c.dispatch.bind_group.settings.buffer_size,
                      (c.dispatch.offsets[2] \div bc7_aligned_size) + 1)]

\* the caller submits what has been recorded: the queue performs the staged
\* writes, in order, before the commands run
SubmitQueue ==
    /\ pc = "batches"
    /\ queue.commands # <<>>
    /\ LET memory == ApplyWrites(queue.memory, queue.writes)
       IN queue' = [queue EXCEPT
              !.memory = memory,
              !.writes = <<>>,
              !.commands = <<>>,
              !.executed = @ \o [i \in 1..Len(queue.commands) |->
                                    ExecuteDispatch(memory, queue.commands[i])]]
    /\ call' = [op |-> "submit", args |-> <<>>]
    /\ UNCHANGED <<pc, outcome, task, uniforms_buffer, bc7_settings_buffer,
                   device, uniforms_aligned_size, bc7_aligned_size, pass,
                   notBatches>>

NextBatches == QueueTask \/ RecordBatch \/ SubmitQueue

SpecBatches == InitBatches /\ [][NextBatches]_vars

\* C29 as stated: every dispatch executed has read the Uniforms and the
\* settings of the task it was issued for, whatever was recorded before its
\* commands were submitted.
C29_DispatchReadsOwnTask ==
    pc = "batches" =>
        \A i \in 1..Len(queue.executed) :
            /\ queue.executed[i].uniforms = UniformsOf(queue.executed[i].task)
            /\ queue.executed[i].settings = queue.executed[i].task.variant

\* C30 as stated: for every task accepted and dispatched, the block offset
\* uploaded in its Uniforms, times 4, is the byte offset the task was added
\* with.
C30_BlockOffsetIsByteOffset ==
    pc = "batches" =>
        \A i \in 1..Len(queue.commands) :
            queue.commands[i].uniforms.blocks_offset * 4
                = queue.commands[i].task.buffer_offset

Init ==
    InitBits \/ InitDecode \/ InitPack \/ InitEnc \/ InitApi \/ InitTiles
    \/ InitGpu \/ InitModes \/ InitQuant \/ InitTables \/ InitShift
    \/ InitRead \/ InitBatches

Next ==
    NextBits \/ NextDecode \/ NextPack \/ NextEnc \/ NextApi \/ NextTiles
    \/ NextGpu \/ NextModes \/ NextQuant \/ NextTables \/ NextShift
    \/ NextRead \/ NextBatches

Spec == Init /\ [][Next]_vars
====
